---- MODULE Spec2Model ----
(***************************************************************************)
(* Engagement decision and approval pipeline of the Bluesky engagement     *)
(* bot: the SQLite ledger (utils/database.py), the orchestrator's          *)
(* process_post (utils/base_monitor.py) and the Slack approval callback    *)
(* receiver (slack_approval_server.py), whose request handlers run in      *)
(* concurrent threads over the same ledger.                                *)
(***************************************************************************)
EXTENDS Integers, Sequences, FiniteSets, TLC

VARIABLES
    seen_posts,         \* table seen_posts: set of rows
    rate_limits,        \* table rate_limits: sequence of rows
    response_log,       \* table response_log: sequence of rows
    pending_approvals,  \* table pending_approvals: sequence of rows, id = index
    now,                \* the clock, in seconds: UTC, as CURRENT_TIMESTAMP
    config,             \* configuration of the orchestrator and the receiver
    orch,               \* the orchestrator's position in process_post
    thread,             \* per callback delivery: its request thread's position
    executed,           \* per approval id: successful adapter operations
    ret                 \* the last direct call of a ledger operation

vars == <<seen_posts, rate_limits, response_log, pending_approvals, now,
          config, orch, thread, executed, ret>>

ledger == <<seen_posts, rate_limits, response_log, pending_approvals>>

-----------------------------------------------------------------------------
(* Bounds of the model *)

\* Callback deliveries, each handled by a request thread of its own.
MaxDeliveries == 2

(* Inputs *)

PostIds == {"p1", "p2"}
Threads == 1..MaxDeliveries
Platform == "bluesky"
NoRow == [absent |-> TRUE]
\* No ledger operation has been called directly.
NoCall == [op |-> "None"]
None == "None"

AuthorOf(p) == IF p = "p1" THEN "alice" ELSE "bob"

\* The post snapshot handed over by search_recent_posts.
PostData(p) == [id |-> p, author_handle |-> AuthorOf(p)]

-----------------------------------------------------------------------------
(* Ledger: utils/database.py *)

\* Faulty variant of has_seen_post: only a post that was answered counts
\* (... AND responded = 1).
has_seen_post_responded(sp, post_id, platform) ==
    \E r \in sp : r.post_id = post_id /\ r.platform = platform /\ r.responded

\* has_seen_post: SELECT 1 ... WHERE post_id = ? AND platform = ?
has_seen_post(sp, post_id, platform) ==
    \E r \in sp : r.post_id = post_id /\ r.platform = platform

\* Faulty variant of mark_post_seen: a plain INSERT into a table without a
\* key.
mark_post_seen_insert(sp, post_id, platform, author_handle, responded, t) ==
    sp \cup {[post_id |-> post_id, platform |-> platform,
              author_handle |-> author_handle, responded |-> responded,
              seen_at |-> t]}

\* mark_post_seen: INSERT OR REPLACE; the table's primary key is post_id, so
\* the row that holds the same post_id is deleted before the insert.
mark_post_seen(sp, post_id, platform, author_handle, responded, t) ==
    {r \in sp : r.post_id # post_id}
    \cup {[post_id |-> post_id, platform |-> platform,
           author_handle |-> author_handle, responded |-> responded,
           seen_at |-> t]}

\* Faulty variant of record_reply_seen: the UPDATE has no WHERE clause.
record_reply_seen_all(sp, post_id, platform) ==
    {[r EXCEPT !.responded = TRUE] : r \in sp}

\* record_reply, first statement: UPDATE seen_posts SET responded = 1
\* WHERE post_id = ? AND platform = ?
record_reply_seen(sp, post_id, platform) ==
    {IF r.post_id = post_id /\ r.platform = platform
     THEN [r EXCEPT !.responded = TRUE] ELSE r : r \in sp}

\* record_reply, second statement: INSERT INTO response_log
record_reply_log(rl, post_id, platform, author_handle, sentiment, response_text) ==
    Append(rl, [post_id |-> post_id, platform |-> platform,
                author_handle |-> author_handle, sentiment |-> sentiment,
                response_text |-> response_text])

\* Faulty variant of record_reply_rate: one row per platform and instant
\* (INSERT OR IGNORE under a unique key).
record_reply_rate_once(rt, platform, t) ==
    IF \E i \in DOMAIN rt : rt[i].platform = platform /\ rt[i].reply_time = t
    THEN rt
    ELSE Append(rt, [platform |-> platform, reply_time |-> t])

\* record_reply, third statement: INSERT INTO rate_limits
record_reply_rate(rt, platform, t) ==
    Append(rt, [platform |-> platform, reply_time |-> t])

\* record_reply as one committed transaction
RecordReplyCommit(post_id, platform, author_handle, sentiment, response_text) ==
    /\ seen_posts' = record_reply_seen(seen_posts, post_id, platform)
    /\ response_log' = record_reply_log(response_log, post_id, platform,
                                        author_handle, sentiment, response_text)
    /\ rate_limits' = record_reply_rate(rate_limits, platform, now)

\* get_reply_count, called at datetime.now() = t: rows of the platform with
\* reply_time > t - timedelta(hours)
get_reply_count(rt, platform, hours, t) ==
    Cardinality({i \in DOMAIN rt : /\ rt[i].platform = platform
                                   /\ rt[i].reply_time > t - hours * 3600})

\* get_reply_timestamps: the same rows' times (ORDER BY reply_time DESC)
get_reply_timestamps(rt, platform, hours, t) ==
    {rt[i].reply_time : i \in {j \in DOMAIN rt : /\ rt[j].platform = platform
                                                 /\ rt[j].reply_time
                                                      > t - hours * 3600}}

\* create_pending_approval: INSERT, the new row's id is lastrowid; status
\* takes its default 'pending', responded_at is NULL (written <<>>).
create_pending_approval(pa, post_id, platform, action, post_data, reply_text) ==
    Append(pa, [post_id |-> post_id, platform |-> platform, action |-> action,
                post_data |-> post_data, reply_text |-> reply_text,
                status |-> "pending", responded_at |-> <<>>])

\* get_pending_approval
get_pending_approval(pa, approval_id) ==
    IF approval_id \in DOMAIN pa THEN pa[approval_id] ELSE NoRow

\* Faulty variant of update_approval_status: the UPDATE has no WHERE clause.
update_approval_status_all(pa, approval_id, status, t) ==
    [id \in DOMAIN pa |->
        [pa[id] EXCEPT !.status = status, !.responded_at = <<t>>]]

\* update_approval_status: UPDATE ... SET status = ?, responded_at =
\* CURRENT_TIMESTAMP WHERE id = ?
update_approval_status(pa, approval_id, status, t) ==
    IF approval_id \in DOMAIN pa
    THEN [pa EXCEPT ![approval_id].status = status,
                    ![approval_id].responded_at = <<t>>]
    ELSE pa

\* The database as one value: the four tables.
Db == [seen_posts |-> seen_posts, rate_limits |-> rate_limits,
       response_log |-> response_log, pending_approvals |-> pending_approvals]

\* The database after a call is the one the call's connection left.
Store(db) ==
    /\ seen_posts' = db.seen_posts
    /\ rate_limits' = db.rate_limits
    /\ response_log' = db.response_log
    /\ pending_approvals' = db.pending_approvals

\* Faulty variant of get_connection: what the statements before the failing
\* one wrote is committed.
get_connection_no_rollback(work, fail_at) ==
    IF fail_at = 0
    THEN [db |-> work[Len(work)], raised |-> FALSE, conn |-> "closed"]
    ELSE [db |-> work[fail_at], raised |-> TRUE, conn |-> "closed"]

\* with self.get_connection() as conn: work[1] is the database when the
\* connection is opened, work[k + 1] the connection's view after the k-th
\* statement of the body. fail_at = 0: no statement raises, the last view
\* is committed. fail_at = k: the k-th statement raises, the connection
\* is rolled back and the exception goes on to the caller. The connection
\* is closed on both paths (finally).
get_connection(work, fail_at) ==
    IF fail_at = 0
    THEN [db |-> work[Len(work)], raised |-> FALSE, conn |-> "closed"]
    ELSE [db |-> work[1], raised |-> TRUE, conn |-> "closed"]

\* record_reply at instant t: the views of its connection, statement by
\* statement.
record_reply(db, post_id, platform, author_handle, sentiment, response_text, t) ==
    LET d1 == [db EXCEPT !.seen_posts =
                            record_reply_seen(@, post_id, platform)]
        d2 == [d1 EXCEPT !.response_log =
                            record_reply_log(@, post_id, platform,
                                             author_handle, sentiment,
                                             response_text)]
        d3 == [d2 EXCEPT !.rate_limits = record_reply_rate(@, platform, t)]
    IN  <<db, d1, d2, d3>>

\* cleanup_old_data(days), called at datetime.now() = t: DELETE FROM
\* seen_posts WHERE seen_at < cutoff, DELETE FROM rate_limits WHERE
\* reply_time < cutoff, with cutoff = t - timedelta(days).
cleanup_old_data(db, days, t) ==
    LET cutoff == t - days * 86400
        NotOld(row) == ~(row.reply_time < cutoff)
        d1 == [db EXCEPT !.seen_posts = {r \in @ : ~(r.seen_at < cutoff)}]
        d2 == [d1 EXCEPT !.rate_limits = SelectSeq(@, NotOld)]
    IN  <<db, d1, d2>>

-----------------------------------------------------------------------------
(* Rate limiter: utils/base_monitor.py, class RateLimiter *)

\* The limits the orchestrator is configured with (config.get(...) values).
max_per_hour == 2
max_per_day == 3
\* min_seconds_between_replies, default of BaseMonitor.__init__
min_seconds_between == 180

Max(S) == CHOOSE x \in S : \A y \in S : y <= x

\* datetime.now(): the host's local time, utc_offset seconds ahead of the UTC
\* clock that CURRENT_TIMESTAMP writes into the rows.
datetime_now == now + config.utc_offset

\* can_reply, called at datetime.now() = t: hourly limit, then daily limit,
\* then spacing to the last reply (recent_timestamps[0], the latest)
can_reply(rt, platform, t) ==
    LET hourly_count == get_reply_count(rt, platform, 1, t)
        daily_count == get_reply_count(rt, platform, 24, t)
        recent_timestamps == get_reply_timestamps(rt, platform, 1, t)
    IN  IF hourly_count >= max_per_hour THEN FALSE
        ELSE IF daily_count >= max_per_day THEN FALSE
        ELSE IF recent_timestamps # {}
                /\ t - Max(recent_timestamps) < min_seconds_between
             THEN FALSE
        ELSE TRUE

-----------------------------------------------------------------------------
(* Retry decorator: utils/retry.py *)

\* The exception classes of the model. APIConnectionError (a timeout),
\* RateLimitError and InternalServerError are subclasses of
\* anthropic.APIError; every class is a subclass of Exception.
ApiErrors == {"APIConnectionError", "RateLimitError", "InternalServerError"}
ExceptionClasses ==
    ApiErrors \cup {"KeyError", "IndexError", "AttributeError",
                    "JSONDecodeError", "NetworkError", "RetryException"}

\* Longest run of transient failures of an external service.
MaxFails == 4

\* An external service as one call after the other sees it: its first
\* `fails` calls fail with the transient error `exc`, every later call
\* gives `then`.
ServiceAt(service, k) ==
    IF k <= service.fails THEN [raised |-> TRUE, exc |-> service.exc]
    ELSE [raised |-> FALSE, value |-> service.then]

\* The while loop of wrapper: run(k) is what the k-th call of func does.
\* A result is returned at once; an exception of `exceptions` is retried
\* until retries > max_retries and then replaced by RetryException; any
\* other exception goes through. attempts counts the calls of func.
RECURSIVE wrapper(_, _, _, _)
wrapper(run, retries, max_retries, exceptions) ==
    LET out == run[retries + 1]
    IN  IF ~out.raised
        THEN [raised |-> FALSE, value |-> out.value, attempts |-> retries + 1]
        ELSE IF out.exc \notin exceptions
        THEN [raised |-> TRUE, exc |-> out.exc, attempts |-> retries + 1]
        ELSE IF retries + 1 > max_retries
        THEN [raised |-> TRUE, exc |-> "RetryException",
              attempts |-> retries + 1]
        ELSE wrapper(run, retries + 1, max_retries, exceptions)

\* Faulty variant of exponential_backoff: the loop gives up one attempt
\* early (while retries < max_retries).
exponential_backoff_one_less(run, max_retries, exceptions) ==
    wrapper(run, 0, max_retries - 1, exceptions)

\* @exponential_backoff(max_retries, exceptions=...) around func
exponential_backoff(run, max_retries, exceptions) ==
    wrapper(run, 0, max_retries, exceptions)

\* What one call of a decorated function can do: return, raise an exception
\* of anthropic.APIError, raise another exception.
CallKinds == {"return", "RateLimitError", "KeyError"}

\* A decorated function as its calls one after the other: the k-th call
\* returns the value k or raises.
FuncCalls(kinds) ==
    [k \in DOMAIN kinds |->
        IF kinds[k] = "return" THEN [raised |-> FALSE, value |-> k]
        ELSE [raised |-> TRUE, exc |-> kinds[k]]]

\* The max_retries the decorator is given in the repository (2, 3), and 0, 1.
RetryLimits == 0..3

\* The exceptions argument: the default (Exception,), and (APIError,).
RetrySets == {ExceptionClasses, ApiErrors}

-----------------------------------------------------------------------------
(* Decision engine: utils/base_monitor.py, class ClaudeDecisionEngine *)

\* JSON values, tagged by their type.
JTrue == [bool |-> TRUE]
JFalse == [bool |-> FALSE]
JStr(x) == [str |-> x]
JInt(n) == [int |-> n]
JNull == [null |-> TRUE]

\* Python's truth value of a parsed JSON value.
Truthy(v) ==
    IF "bool" \in DOMAIN v THEN v.bool
    ELSE IF "str" \in DOMAIN v THEN v.str # ""
    ELSE IF "int" \in DOMAIN v THEN v.int # 0
    ELSE FALSE

\* dict.get(key, default)
Get(d, key, default) == IF key \in DOMAIN d THEN d[key] ELSE default

\* What the model can answer to stage 1: text that is not JSON, JSON that
\* is not an object, an empty content list, and objects, some of them
\* outside the output contract.
Stage1Objects ==
    {[should_engage |-> JTrue, sentiment |-> JStr("positive"),
      reason |-> JStr("on topic")],
     [should_engage |-> JFalse, sentiment |-> JStr("negative"),
      reason |-> JStr("troll")],
     [should_engage |-> JStr("no"), sentiment |-> JStr("negative"),
      reason |-> JStr("troll")],
     [sentiment |-> JStr("positive")]}

Stage2Objects ==
    {[action |-> JStr("reshare"), reason |-> JStr("news"),
      engagement_score |-> JInt(8)],
     [action |-> JStr("reply_casual"), reason |-> JStr("engaged"),
      engagement_score |-> JInt(10)],
     [action |-> JStr("reply_with_cta"), reason |-> JStr("concerned"),
      engagement_score |-> JInt(1)],
     [action |-> JStr("like"), reason |-> JStr("nice"),
      engagement_score |-> JInt(11)],
     [reason |-> JStr("no action given")]}

\* A response of messages.create: content (empty, or one text block) whose
\* text, once the markdown fences are stripped, json.loads refuses
\* ("invalid"), parses to a value that is not an object ("scalar": a list,
\* a string, a number, null), or parses to an object.
Responses(objects) ==
    {[content |-> "empty"]}
    \cup {[content |-> "text", fenced |-> f, json |-> j] :
            f \in BOOLEAN, j \in {"invalid", "scalar"}}
    \cup {[content |-> "text", fenced |-> f, json |-> "object", object |-> o] :
            f \in BOOLEAN, o \in objects}

\* The LLM service: transient failures, then a response.
Llm(objects) ==
    [fails : 0..MaxFails, exc : ApiErrors, then : Responses(objects)]

\* The try block of both stages on one response: response.content[0].text,
\* the fences replaced, json.loads, result.get(...) for the debug line.
ParseResponse(response) ==
    IF response.content = "empty"
    THEN [raised |-> TRUE, exc |-> "IndexError"]
    ELSE IF response.json = "invalid"
    THEN [raised |-> TRUE, exc |-> "JSONDecodeError"]
    ELSE IF response.json = "scalar"
    THEN [raised |-> TRUE, exc |-> "AttributeError"]
    ELSE [raised |-> FALSE, value |-> response.object]

\* Faulty variant of decide_engagement: the except clauses fail open.
decide_engagement_fails_open(call) ==
    LET tried == IF call.raised THEN call ELSE ParseResponse(call.value)
    IN  IF ~tried.raised THEN tried
        ELSE [raised |-> FALSE,
              value |-> [should_engage |-> JTrue, reason |-> JStr("error"),
                         sentiment |-> JStr("error")]]

\* The body of decide_engagement on one call of messages.create:
\* json.JSONDecodeError gives parse_error, every other Exception gives
\* error, and nothing is raised.
decide_engagement(call) ==
    LET tried == IF call.raised THEN call ELSE ParseResponse(call.value)
    IN  IF ~tried.raised THEN tried
        ELSE IF tried.exc = "JSONDecodeError"
        THEN [raised |-> FALSE,
              value |-> [should_engage |-> JFalse,
                         reason |-> JStr("parse_error"),
                         sentiment |-> JStr("error")]]
        ELSE [raised |-> FALSE,
              value |-> [should_engage |-> JFalse, reason |-> JStr("error"),
                         sentiment |-> JStr("error")]]

\* The body of decide_engagement_type: the same, with the safe default.
decide_engagement_type(call) ==
    LET tried == IF call.raised THEN call ELSE ParseResponse(call.value)
    IN  IF ~tried.raised THEN tried
        ELSE IF tried.exc = "JSONDecodeError"
        THEN [raised |-> FALSE,
              value |-> [action |-> JStr("reply_with_cta"),
                         reason |-> JStr("parse_error"),
                         engagement_score |-> JInt(5)]]
        ELSE [raised |-> FALSE,
              value |-> [action |-> JStr("reply_with_cta"),
                         reason |-> JStr("error"),
                         engagement_score |-> JInt(5)]]

\* The decorated stages: @exponential_backoff(max_retries=3,
\* exceptions=(anthropic.APIError, anthropic.APIConnectionError)).
Stage1(llm) ==
    exponential_backoff(
        [k \in 1..(MaxFails + 1) |-> decide_engagement(ServiceAt(llm, k))],
        3, ApiErrors)

Stage2(llm) ==
    exponential_backoff(
        [k \in 1..(MaxFails + 1) |-> decide_engagement_type(ServiceAt(llm, k))],
        3, ApiErrors)

\* Faulty variant of should_respond: stage 2 is asked whatever stage 1 said.
should_respond_asks_always(llm1, llm2) ==
    LET stage1_result == Stage1(llm1).value
        stage2_result == Stage2(llm2).value
        should_engage == Get(stage1_result, "should_engage", JFalse)
    IN  [raised |-> FALSE, stage1 |-> stage1_result, stage2_calls |-> 1,
         stage2 |-> stage2_result,
         value |-> IF ~Truthy(should_engage)
                   THEN [should_respond |-> JFalse, action |-> JStr("ignore"),
                         sentiment |-> Get(stage1_result, "sentiment",
                                           JStr("unknown")),
                         reason |-> <<Get(stage1_result, "reason", JStr(""))>>,
                         engagement_score |-> JInt(0)]
                   ELSE [should_respond |-> JTrue,
                         action |-> Get(stage2_result, "action",
                                        JStr("reply_with_cta")),
                         sentiment |-> Get(stage1_result, "sentiment",
                                           JStr("unknown")),
                         reason |-> <<JStr("Stage1: "),
                                      Get(stage1_result, "reason", JStr("")),
                                      JStr(" | Stage2: "),
                                      Get(stage2_result, "reason", JStr(""))>>,
                         engagement_score |-> Get(stage2_result,
                                                  "engagement_score",
                                                  JInt(5))]]

\* The body of should_respond: stage 1, on a falsy should_engage the ignore
\* decision, else stage 2 and the combined decision. Neither stage raises,
\* so should_respond's own decorator never sees an exception. reason is
\* the string as the sequence of its parts.
should_respond(llm1, llm2) ==
    LET stage1_result == Stage1(llm1).value
        should_engage == Get(stage1_result, "should_engage", JFalse)
        sentiment == Get(stage1_result, "sentiment", JStr("unknown"))
        stage1_reason == Get(stage1_result, "reason", JStr(""))
    IN  IF ~Truthy(should_engage)
        THEN [raised |-> FALSE, stage1 |-> stage1_result, stage2_calls |-> 0,
              stage2 |-> <<>>,
              value |-> [should_respond |-> JFalse, action |-> JStr("ignore"),
                         sentiment |-> sentiment,
                         reason |-> <<stage1_reason>>,
                         engagement_score |-> JInt(0)]]
        ELSE LET stage2_result == Stage2(llm2).value
             IN  [raised |-> FALSE, stage1 |-> stage1_result,
                  stage2_calls |-> 1, stage2 |-> stage2_result,
                  value |-> [should_respond |-> JTrue,
                             action |-> Get(stage2_result, "action",
                                            JStr("reply_with_cta")),
                             sentiment |-> sentiment,
                             reason |-> <<JStr("Stage1: "), stage1_reason,
                                          JStr(" | Stage2: "),
                                          Get(stage2_result, "reason",
                                              JStr(""))>>,
                             engagement_score |-> Get(stage2_result,
                                                      "engagement_score",
                                                      JInt(5))]]

\* Texts are sequences of characters.
Whitespace == {" "}
Chars == {"a", "b"} \cup Whitespace
\* Longest text the model generates, and the largest max_chars.
MaxTextLen == 5
MaxChars == 5

RECURSIVE TextsOfLen(_)
TextsOfLen(n) ==
    IF n = 0 THEN {<<>>}
    ELSE {Append(t, c) : t \in TextsOfLen(n - 1), c \in Chars}

Texts == UNION {TextsOfLen(n) : n \in 0..MaxTextLen}

RECURSIVE lstrip(_)
lstrip(text) ==
    IF text # <<>> /\ Head(text) \in Whitespace THEN lstrip(Tail(text))
    ELSE text

RECURSIVE rstrip(_)
rstrip(text) ==
    IF text # <<>> /\ text[Len(text)] \in Whitespace
    THEN rstrip(SubSeq(text, 1, Len(text) - 1))
    ELSE text

\* str.strip()
strip(text) == rstrip(lstrip(text))

\* text[:stop], Python's slice: a negative stop counts from the end.
Slice(text, stop) ==
    IF stop >= 0
    THEN SubSeq(text, 1, IF stop < Len(text) THEN stop ELSE Len(text))
    ELSE SubSeq(text, 1, IF Len(text) + stop > 0 THEN Len(text) + stop ELSE 0)

Ellipsis == <<".", ".", ".">>

\* The fixed replies of the except clause, each as one token.
Fallback(action_type) ==
    IF action_type = "reply_casual" THEN <<"fallback_casual">>
    ELSE <<"fallback_cta">>

\* len() of a reply: a character counts one, a fixed reply its number of
\* characters (65 for the casual one; 43 and the length of website_url,
\* 19 for the default 'https://example.com', for the other).
RECURSIVE len(_)
len(text) ==
    IF text = <<>> THEN 0
    ELSE (IF Head(text) = "fallback_casual" THEN 65
          ELSE IF Head(text) = "fallback_cta" THEN 43 + 19
          ELSE 1) + len(Tail(text))

\* Faulty variant of truncate: the marker is appended to max_chars
\* characters.
truncate_late(reply, max_chars) ==
    IF Len(reply) > max_chars
    THEN Slice(reply, max_chars) \o Ellipsis
    ELSE reply

\* if len(reply) > max_chars: reply = reply[:max_chars - 3] + "..."
truncate(reply, max_chars) ==
    IF Len(reply) > max_chars
    THEN Slice(reply, max_chars - 3) \o Ellipsis
    ELSE reply

\* The body of generate_response on one call of messages.create: the text
\* is stripped, then cut; any exception gives the fallback reply.
generate_response(call, action_type, max_chars) ==
    IF call.raised \/ call.value.content = "empty"
    THEN [raised |-> FALSE, value |-> Fallback(action_type)]
    ELSE [raised |-> FALSE,
          value |-> truncate(strip(call.value.text), max_chars)]

\* The generation service: it fails once or answers.
GenerationLlm ==
    [fails : {0, 1}, exc : {"APIConnectionError"},
     then : {[content |-> "empty"]}
            \cup {[content |-> "text", text |-> t] : t \in Texts}]

\* The decorated generate_response.
Generate(llm, action_type, max_chars) ==
    exponential_backoff(
        [k \in 1..(MaxFails + 1) |->
            generate_response(ServiceAt(llm, k), action_type, max_chars)],
        3, ApiErrors)

-----------------------------------------------------------------------------
(* Platform adapter: bluesky_monitor_v2.py *)

\* The Bluesky service: transient failures, then the post is accepted.
Bluesky == [fails : 0..MaxFails, exc : {"NetworkError"}, then : {"posted"}]

\* The body of post_reply and of reshare_post on one call of the client:
\* post_data['uri'] is read before the try block, every exception of the
\* client call is logged and answered with False.
post_reply(has_uri, call) ==
    IF ~has_uri THEN [raised |-> TRUE, exc |-> "KeyError"]
    ELSE IF call.raised THEN [raised |-> FALSE, value |-> FALSE]
    ELSE [raised |-> FALSE, value |-> TRUE]

\* The decorated operation: @exponential_backoff(max_retries=2,
\* base_delay=3.0), which retries every Exception.
Adapter(has_uri, service) ==
    exponential_backoff(
        [k \in 1..(MaxFails + 1) |-> post_reply(has_uri, ServiceAt(service, k))],
        2, ExceptionClasses)

-----------------------------------------------------------------------------
(* Decision engine, as far as the gating step reads it *)

\* What should_respond can return as action: the closed set, and a value the
\* model answered outside of it (the answer's action is passed on unchecked).
DecisionActions == {"ignore", "reshare", "reply_with_cta", "reply_casual", "like"}
Sentiments == {"positive"}
GeneratedText == "generated reply"
EditedText == "edited reply"
\* Answers to the manual prompt, after strip().lower()
Answers == {"y", "n", "e"}
\* What one call of a platform adapter operation can do: return True, return
\* False (an exception inside the operation's try), or raise (post_data
\* without 'uri': the backoff decorator gives up with RetryException before
\* any network call was made).
AdapterOutcomes == {"ok", "fail", "raise"}

-----------------------------------------------------------------------------
(* Orchestrator: BaseMonitor.process_post *)

\* No message was handed to a Slack notifier.
NoNotice == [kind |-> "None", approval_id |-> 0]

\* Outcomes of process_post that are exceptions leaving it.
Exceptions == {"raise", "db_error"}

\* pc .. result: the position in process_post and the call's data. notice:
\* the message the call handed to Slack; calls: the adapter operations the
\* call invoked; answer: what the operator typed at the manual prompt of
\* the call in progress.
\* posts, i, caught: the polling cycle of run_monitoring_loop, the list the
\* search returned, how many of its posts were taken, and how many
\* exceptions the per-post except clause caught (no cycle: <<>>, 0, 0).
OrchIdle == [pc |-> "idle", post |-> None, action |-> None, sentiment |-> None,
             reply_text |-> None, op |-> None, result |-> None,
             notice |-> NoNotice, calls |-> 0, answer |-> None,
             posts |-> <<>>, i |-> 0, caught |-> 0]

\* Faulty variant of Return: an exception is not caught at the per-post
\* boundary and the rest of the polling cycle is abandoned.
ReturnLeavesCycle(result) ==
    [OrchIdle EXCEPT !.result = result, !.notice = orch.notice,
                     !.calls = orch.calls,
                     !.posts = IF result \in Exceptions THEN <<>>
                               ELSE orch.posts,
                     !.i = IF result \in Exceptions THEN 0 ELSE orch.i,
                     !.caught = orch.caught]

\* process_post returns (or is left by an exception): the call's data is
\* gone, result records how the call ended.
Return(result) ==
    [OrchIdle EXCEPT !.result = result, !.notice = orch.notice,
                     !.calls = orch.calls,
                     !.posts = orch.posts, !.i = orch.i,
                     !.caught = IF result \in Exceptions /\ orch.posts # <<>>
                                THEN orch.caught + 1 ELSE orch.caught]

\* Faulty variant of GatingMode: manual_approval is tested first.
GatingModeManualFirst ==
    IF config.manual_approval THEN "manual"
    ELSE IF config.slack_interactive_mode THEN "interactive"
    ELSE "auto"

\* Gating mode: slack_interactive_mode is tested first, then manual_approval.
GatingMode ==
    IF config.slack_interactive_mode THEN "interactive"
    ELSE IF config.manual_approval THEN "manual"
    ELSE "auto"

\* Faulty variant of ProcessPost: no dedup check, every post handed over is
\* marked and goes on.
ProcessPostNoDedup(p) ==
    /\ orch.pc = "idle"
    /\ LET called == [OrchIdle EXCEPT
                         !.posts = orch.posts, !.caught = orch.caught,
                         !.i = IF orch.i < Len(orch.posts) THEN orch.i + 1
                               ELSE orch.i]
       IN  /\ seen_posts' = mark_post_seen(seen_posts, p, Platform,
                                           AuthorOf(p), FALSE, now)
           /\ IF can_reply(rate_limits, Platform, datetime_now)
              THEN orch' = [called EXCEPT !.pc = "decide", !.post = p]
              ELSE orch' = [called EXCEPT !.result = "rate_limited"]
    /\ UNCHANGED <<rate_limits, response_log, pending_approvals, now, config, ret,
                   thread, executed>>

\* Faulty variant of ProcessPost: the rate limiter is asked before the post
\* is marked, and a post it turns away is not marked.
ProcessPostRateFirst(p) ==
    /\ orch.pc = "idle"
    /\ LET called == [OrchIdle EXCEPT
                         !.posts = orch.posts, !.caught = orch.caught,
                         !.i = IF orch.i < Len(orch.posts) THEN orch.i + 1
                               ELSE orch.i]
       IN  IF has_seen_post(seen_posts, p, Platform)
           THEN /\ orch' = [called EXCEPT !.result = "already_seen"]
                /\ UNCHANGED seen_posts
           ELSE IF can_reply(rate_limits, Platform, datetime_now)
           THEN /\ seen_posts' = mark_post_seen(seen_posts, p, Platform,
                                                AuthorOf(p), FALSE, now)
                /\ orch' = [called EXCEPT !.pc = "decide", !.post = p]
           ELSE /\ orch' = [called EXCEPT !.result = "rate_limited"]
                /\ UNCHANGED seen_posts
    /\ UNCHANGED <<rate_limits, response_log, pending_approvals, now, config, ret,
                   thread, executed>>

\* process_post up to the decision: a seen post returns at once; an unseen
\* one is marked seen (mark_post_seen(post_id, platform, author,
\* responded=False)) and skipped when rate_limiter.can_reply() is False.
\* The three ledger calls are one step: no step of the receiver reads or
\* writes the row of a post that has no approval yet, and mark_post_seen
\* does not touch rate_limits.
ProcessPost(p) ==
    /\ orch.pc = "idle"
    /\ LET called == [OrchIdle EXCEPT
                         !.posts = orch.posts, !.caught = orch.caught,
                         !.i = IF orch.i < Len(orch.posts) THEN orch.i + 1
                               ELSE orch.i]
       IN  IF has_seen_post(seen_posts, p, Platform)
           THEN /\ orch' = [called EXCEPT !.result = "already_seen"]
                /\ UNCHANGED seen_posts
           ELSE /\ seen_posts' = mark_post_seen(seen_posts, p, Platform,
                                                AuthorOf(p), FALSE, now)
                /\ IF can_reply(rate_limits, Platform, datetime_now)
                   THEN orch' = [called EXCEPT !.pc = "decide", !.post = p]
                   ELSE orch' = [called EXCEPT !.result = "rate_limited"]
    /\ UNCHANGED <<rate_limits, response_log, pending_approvals, now, config, ret,
                   thread, executed>>

\* Faulty variant of send_approval_request: nothing is handed to Slack.
send_nothing(rec, action) == rec

\* slack.send_approval_request(post_data, decision, action, reply_text): the
\* plain notification of manual and auto mode. Delivery is best effort (no
\* webhook configured or a failed POST returns False, which process_post
\* ignores); notice records that the message was handed over.
send_approval_request(rec, action) ==
    [rec EXCEPT !.notice = [kind |-> "approval", approval_id |-> 0]]

\* The gating step for a decided reshare or reply (text is None for a reshare):
\* interactive mode stores a pending approval and returns; manual mode asks;
\* auto mode goes on to the adapter call.
Gate(action, sentiment, text, answer) ==
    LET op == IF action = "reshare" THEN "reshare" ELSE "reply"
        notified == send_approval_request(orch, action)
        decided == [notified EXCEPT !.pc = "execute", !.action = action,
                                    !.sentiment = sentiment,
                                    !.reply_text = text, !.op = op]
    IN  CASE GatingMode = "interactive" ->
               /\ pending_approvals' = create_pending_approval(
                      pending_approvals, orch.post, Platform, action,
                      PostData(orch.post), text)
               /\ executed' = Append(executed, 0)
               \* slack_interactive.send_approval_request(approval_id, ...)
               /\ orch' = [Return("pending") EXCEPT !.notice =
                              [kind |-> "interactive",
                               approval_id |-> Len(pending_approvals')]]
          [] GatingMode = "manual" ->
               /\ IF action # "reshare" /\ answer = "e"
                  THEN orch' = [decided EXCEPT !.reply_text = EditedText,
                                               !.answer = answer]
                  ELSE IF answer = "y"
                  THEN orch' = [decided EXCEPT !.answer = answer]
                  ELSE orch' = [Return("skipped") EXCEPT
                                   !.notice = notified.notice]
               /\ UNCHANGED <<pending_approvals, executed>>
          [] OTHER ->
               /\ orch' = decided
               /\ UNCHANGED <<pending_approvals, executed>>

\* claude.should_respond and the branch on its action.
Decide(action, sentiment, answer) ==
    /\ orch.pc = "decide"
    /\ IF action = "ignore"
       THEN \* slack.send_ignored_post(post_data, decision)
            /\ orch' = [Return("ignored") EXCEPT !.notice =
                           [kind |-> "ignored", approval_id |-> 0]]
            /\ UNCHANGED <<pending_approvals, executed>>
       ELSE IF action = "reshare"
       THEN Gate(action, sentiment, None, answer)
       ELSE IF action \in {"reply_with_cta", "reply_casual"}
       THEN Gate(action, sentiment, GeneratedText, answer)
       ELSE /\ orch' = Return("dropped")
            /\ UNCHANGED <<pending_approvals, executed>>
    /\ UNCHANGED <<seen_posts, rate_limits, response_log, now, config, ret, thread>>

\* Faulty variant of AfterAdapter: the outcome is recorded whatever the
\* adapter answered.
AfterAdapterRecordsAnyway(rec, outcome) ==
    [rec EXCEPT !.pc = "record", !.result = outcome]

\* What the orchestrator does with the adapter's answer: on True go on to
\* record_reply, on False log the failure, an exception leaves process_post.
AfterAdapter(rec, outcome) ==
    IF outcome = "ok"
    THEN [rec EXCEPT !.pc = "record", !.result = outcome]
    ELSE [Return(outcome) EXCEPT !.calls = rec.calls]

\* self.reshare_post(post_id, post_data) / self.post_reply(post_id, reply_text,
\* post_data)
OrchExecute(outcome) ==
    /\ orch.pc = "execute"
    /\ orch' = AfterAdapter([orch EXCEPT !.calls = @ + 1], outcome)
    /\ UNCHANGED <<ledger, now, config, ret, thread, executed>>

\* db.record_reply(post_id, platform, author, sentiment, text or "[RESHARED]");
\* a failed transaction is rolled back and raises.
OrchRecord(commit) ==
    /\ orch.pc = "record"
    /\ IF commit
       THEN /\ RecordReplyCommit(orch.post, Platform, AuthorOf(orch.post),
                                 orch.sentiment,
                                 IF orch.op = "reshare" THEN "[RESHARED]"
                                 ELSE orch.reply_text)
            /\ orch' = Return("recorded")
       ELSE /\ orch' = Return("db_error")
            /\ UNCHANGED <<seen_posts, response_log, rate_limits>>
    /\ UNCHANGED <<pending_approvals, now, config, ret, thread, executed>>

-----------------------------------------------------------------------------
(* Approval callback receiver: slack_approval_server.py *)

\* The shared secret Slack signs with, and a key that is not the secret.
SigningSecret == "secret"
Keys == {SigningSecret, "other key"}
Timestamps == {"1700000000"}

\* Button values, written as their pieces around the separator "_": the
\* buttons of approval 1, an id with no row, a verb that is neither approve
\* nor reject, and two malformed values.
ActionValues ==
    { <<"approve", "_", "1">>, <<"reject", "_", "1">>,
      <<"approve", "_", "7">>, <<"skip", "_", "1">>,
      <<"approve">>, <<"approve", "_", "x">> }

\* A request body that is not valid UTF-8.
BadUtf8Body == <<"\\xff">>
Bodies == ActionValues \cup {BadUtf8Body}

\* hmac.new(key, msg, sha256).hexdigest(): determined by key and message,
\* distinct for distinct (key, message).
HmacSha256(key, msg) == <<"hmac", key, msg>>

\* The signature Slack sends: 'v0=' + HMAC of "v0:{timestamp}:{body}". A
\* header value is its text and whether the text is all ASCII.
SlackSignature(key, timestamp, body) ==
    [text |-> <<"v0=", HmacSha256(key, <<"v0", ":", timestamp, ":", body>>)>>,
     ascii |-> TRUE]

\* The signatures a client can send with a body: signed with the secret or
\* with another key, signed over another body, no header at all, a header
\* with characters outside ASCII.
SignaturesFor(ts, b) ==
    {SlackSignature(k, ts, b) : k \in Keys}
    \cup {SlackSignature(SigningSecret, ts, <<"reject", "_", "7">>),
          [text |-> <<>>, ascii |-> TRUE], [text |-> <<>>, ascii |-> FALSE]}

\* The requests that can arrive: every body signed by Slack, and an approve,
\* a reject and the undecodable body with every other signature as well.
ForgedBodies == {<<"approve", "_", "1">>, <<"reject", "_", "1">>, BadUtf8Body}
Requests ==
    UNION {{[timestamp |-> ts, body |-> b, signature |-> sig] :
               sig \in IF b \in ForgedBodies THEN SignaturesFor(ts, b)
                       ELSE {SlackSignature(SigningSecret, ts, b)}} :
           ts \in Timestamps, b \in Bodies}

\* Faulty variant of verify_slack_signature: any non-empty ASCII signature
\* header passes.
verify_nonempty_signature(request_data, timestamp, signature) ==
    IF config.slack_signing_secret = None THEN "valid"
    ELSE IF request_data = BadUtf8Body THEN "raise"
    ELSE IF ~signature.ascii THEN "raise"
    ELSE IF signature.text # <<>> THEN "valid"
    ELSE "invalid"

\* verify_slack_signature. Returns "valid", "invalid", or "raise" when
\* decode('utf-8') or compare_digest raise.
verify_slack_signature(request_data, timestamp, signature) ==
    IF config.slack_signing_secret = None THEN "valid"
    ELSE IF request_data = BadUtf8Body THEN "raise"
    ELSE IF ~signature.ascii THEN "raise"
    ELSE IF SlackSignature(config.slack_signing_secret, timestamp, request_data)
            = signature
    THEN "valid"
    ELSE "invalid"

\* str.split('_')
RECURSIVE SplitFrom(_, _, _)
SplitFrom(s, i, cur) ==
    IF i > Len(s) THEN <<cur>>
    ELSE IF s[i] = "_" THEN <<cur>> \o SplitFrom(s, i + 1, <<>>)
    ELSE SplitFrom(s, i + 1, Append(cur, s[i]))
split(s) == SplitFrom(s, 1, <<>>)

\* int(part): whether the part spells an integer, and which
IsInt(part) == part \in {<<"1">>, <<"2">>, <<"3">>, <<"7">>}
ParseInt(part) ==
    IF part = <<"1">> THEN 1 ELSE IF part = <<"2">> THEN 2
    ELSE IF part = <<"3">> THEN 3 ELSE 7

\* The request thread of a delivery that has not arrived yet; the fields
\* record what the thread does for its request.
\* overlap is history: another delivery was in flight when this one arrived.
ThreadIdle == [pc |-> "new", action_type |-> <<>>, approval_id |-> 0,
               op |-> None, result |-> None, calls |-> 0, recorded |-> FALSE,
               wrote_status |-> None, code |-> 0, text |-> <<>>,
               overlap |-> FALSE]

\* The handler returns: the response, and what the thread did for it.
Respond(rec, code, text) ==
    [rec EXCEPT !.pc = "done", !.code = code, !.text = text,
                !.action_type = <<>>, !.approval_id = 0]

\* Faulty variant of Dispatch: only an approved approval counts as already
\* processed.
DispatchApprovedOnly(approval, approval_id, action_type) ==
    IF approval.status = "approved"
    THEN Respond(ThreadIdle, 200,
                 <<"This approval has already been", approval.status>>)
    ELSE [ThreadIdle EXCEPT !.action_type = action_type,
                            !.approval_id = approval_id,
                            !.pc = IF action_type = <<"approve">>
                                   THEN "process" ELSE "set_status"]

\* What slack_interactive does with the approval row it has read: answer at
\* once unless the status is pending, else go on by the button pressed.
Dispatch(approval, approval_id, action_type) ==
    IF approval.status # "pending"
    THEN Respond(ThreadIdle, 200,
                 <<"This approval has already been", approval.status>>)
    ELSE [ThreadIdle EXCEPT !.action_type = action_type,
                            !.approval_id = approval_id,
                            !.pc = IF action_type = <<"approve">>
                                   THEN "process" ELSE "set_status"]

\* slack_interactive from the request to the status check: verify the
\* signature, parse the button value, read the approval.
Handle(req) ==
    LET verdict == verify_slack_signature(req.body, req.timestamp, req.signature)
        parts == split(req.body)
        approval_id == ParseInt(parts[2])
        approval == get_pending_approval(pending_approvals, approval_id)
    IN  IF verdict = "raise"
        THEN Respond(ThreadIdle, 500, <<"Internal server error">>)
        ELSE IF verdict = "invalid"
        THEN Respond(ThreadIdle, 403, <<"Invalid signature">>)
        ELSE IF req.body = BadUtf8Body
        THEN Respond(ThreadIdle, 500, <<"Internal server error">>)
        ELSE IF Len(parts) # 2
        THEN Respond(ThreadIdle, 400, <<"Invalid action value">>)
        ELSE IF ~IsInt(parts[2])
        THEN Respond(ThreadIdle, 500, <<"Internal server error">>)
        ELSE IF approval = NoRow
        THEN Respond(ThreadIdle, 404, <<"Approval not found">>)
        ELSE Dispatch(approval, approval_id, parts[1])

InFlight(t) == thread[t].pc \notin {"new", "done"}

\* A callback request arrives and is handled by a thread of its own
\* (deliveries are numbered in the order of their arrival).
Receive(t, req) ==
    /\ thread[t].pc = "new"
    /\ IF t = 1 THEN TRUE ELSE thread[t - 1].pc # "new"
    /\ thread' = [thread EXCEPT ![t] =
           [Handle(req) EXCEPT !.overlap =
               \/ thread[t].overlap
               \/ /\ Handle(req).pc # "done"
                  /\ \E u \in Threads \ {t} : InFlight(u)]]
    /\ UNCHANGED <<ledger, now, config, ret, orch, executed>>

\* Which adapter operation process_approval runs for a stored action:
\* 'reply' -> reply_to_post, 'reshare' -> reshare_post, anything else none.
AdapterOpFor(action) ==
    IF action = "reply" THEN "reply"
    ELSE IF action = "reshare" THEN "reshare"
    ELSE None

\* Faulty variant of ApproveFailed: the status is written although
\* process_approval returned False.
ApproveFailedMarksApproved(rec, result) ==
    [rec EXCEPT !.result = result, !.pc = "set_status"]

\* Faulty variant of ApproveFailed: the execution is tried again.
ApproveFailedRetries(rec, result) ==
    [rec EXCEPT !.result = result, !.pc = "process"]

\* slack_interactive when process_approval returned False: the status is
\* not written, the thread reply reads FAILED TO POST, the response is 200.
ApproveFailed(rec, result) ==
    Respond([rec EXCEPT !.result = result], 200,
            <<"FAILED TO POST - Check logs for details">>)

\* process_approval up to and including the adapter call. The approval dict
\* is the row read in Receive; all of its fields but status never change.
ProcessApproval(t, outcome) ==
    /\ thread[t].pc = "process"
    /\ LET approval == pending_approvals[thread[t].approval_id]
           op == AdapterOpFor(approval.action)
       IN  IF approval.platform # "bluesky"
           THEN /\ thread' = [thread EXCEPT ![t] = ApproveFailed(@, "unknown")]
                /\ UNCHANGED executed
           ELSE IF config.bluesky_monitor = None
           THEN /\ thread' = [thread EXCEPT ![t] =
                                 ApproveFailed(@, "not initialized")]
                /\ UNCHANGED executed
           ELSE IF op = None
           THEN /\ thread' = [thread EXCEPT ![t] = ApproveFailed(@, "unknown")]
                /\ UNCHANGED executed
           ELSE IF outcome = "ok"
           THEN /\ thread' = [thread EXCEPT ![t].pc = "record", ![t].op = op,
                                            ![t].result = outcome,
                                            ![t].calls = @ + 1]
                /\ executed' = [executed EXCEPT ![thread[t].approval_id] = @ + 1]
           ELSE /\ thread' = [thread EXCEPT ![t] =
                      ApproveFailed([@ EXCEPT !.op = op, !.calls = @ + 1],
                                    outcome)]
                /\ UNCHANGED executed
    /\ UNCHANGED <<ledger, now, config, ret, orch>>

\* process_approval after a successful adapter call:
\* db.record_reply(post_id, platform, author_handle, reply_text, action) for a
\* reply, db.record_reply(post_id, platform, author_handle, None, action) for
\* a reshare. A failed transaction raises; process_approval catches it and
\* returns False.
RecordOutcome(t, commit) ==
    /\ thread[t].pc = "record"
    /\ LET approval == pending_approvals[thread[t].approval_id]
       IN  IF commit
           THEN /\ RecordReplyCommit(approval.post_id, approval.platform,
                       approval.post_data.author_handle,
                       IF thread[t].op = "reply" THEN approval.reply_text ELSE None,
                       approval.action)
                /\ thread' = [thread EXCEPT ![t].pc = "set_status",
                                            ![t].recorded = TRUE]
           ELSE /\ thread' = [thread EXCEPT ![t] = ApproveFailed(@, "db_error")]
                /\ UNCHANGED <<seen_posts, response_log, rate_limits>>
    /\ UNCHANGED <<pending_approvals, now, config, ret, orch, executed>>

\* The status slack_interactive writes for a button
StatusFor(action_type) ==
    IF action_type = <<"approve">> THEN "approved" ELSE "rejected"

\* db.update_approval_status(approval_id, 'approved' | 'rejected') and the
\* response; a failed transaction raises and the handler answers 500.
SetStatus(t, commit) ==
    /\ thread[t].pc = "set_status"
    /\ LET status == StatusFor(thread[t].action_type)
       IN  IF commit
           THEN /\ pending_approvals' = update_approval_status(
                       pending_approvals, thread[t].approval_id, status, now)
                /\ thread' = [thread EXCEPT ![t] =
                      Respond([@ EXCEPT !.wrote_status = status], 200,
                              IF status = "approved"
                              THEN <<"APPROVED & POSTED">>
                              ELSE <<"REJECTED - Will not be posted">>)]
           ELSE /\ thread' = [thread EXCEPT ![t] =
                      Respond(@, 500, <<"Internal server error">>)]
                /\ UNCHANGED pending_approvals
    /\ UNCHANGED <<seen_posts, rate_limits, response_log, now, config, ret, orch,
                   executed>>

-----------------------------------------------------------------------------
(* The system *)

\* manual_approval (default True) is read only when slack_interactive_mode is
\* off; SLACK_SIGNING_SECRET may be unset; bluesky_monitor stays None when
\* init_monitors fails or is not run.
Configs ==
    {c \in [slack_interactive_mode : BOOLEAN, manual_approval : BOOLEAN,
            utc_offset : {0},
            slack_signing_secret : {None, SigningSecret},
            bluesky_monitor : {None, "BlueskyMonitor"}] :
        c.slack_interactive_mode => c.manual_approval}

Init ==
    /\ seen_posts = {}
    /\ rate_limits = <<>>
    /\ response_log = <<>>
    /\ pending_approvals = <<>>
    /\ now = 0
    /\ config \in Configs
    /\ ret = NoCall
    /\ orch = OrchIdle
    /\ thread = [t \in Threads |-> ThreadIdle]
    /\ executed = <<>>

Next ==
    \/ \E p \in PostIds : ProcessPost(p)
    \/ \E a \in DecisionActions, s \in Sentiments, ans \in Answers : Decide(a, s, ans)
    \/ \E o \in AdapterOutcomes : OrchExecute(o)
    \/ \E c \in BOOLEAN : OrchRecord(c)
    \/ \E t \in Threads, req \in Requests : Receive(t, req)
    \/ \E t \in Threads, o \in AdapterOutcomes : ProcessApproval(t, o)
    \/ \E t \in Threads, c \in BOOLEAN : RecordOutcome(t, c)
    \/ \E t \in Threads, c \in BOOLEAN : SetStatus(t, c)

Spec == Init /\ [][Next]_vars

-----------------------------------------------------------------------------
(* The interactive deployment when nothing fails: the orchestrator proposes, *)
(* a reviewer presses the buttons of the Slack messages, the adapter and the *)
(* database always succeed.                                                  *)

InteractivePosts == PostIds \cup {"p3"}

\* The requests Slack sends for the buttons of approvals 1..3.
ButtonPresses ==
    {[timestamp |-> ts, body |-> <<verb, "_", id>>,
      signature |-> SlackSignature(SigningSecret, ts, <<verb, "_", id>>)] :
        ts \in Timestamps, verb \in {"approve", "reject"},
        id \in {"1", "2", "3"}}

\* A request thread that has answered takes the next delivery.
NextRequest(t) ==
    /\ thread[t].pc = "done"
    /\ thread' = [thread EXCEPT ![t] =
                     [ThreadIdle EXCEPT !.overlap = thread[t].overlap]]
    /\ UNCHANGED <<ledger, now, config, ret, orch, executed>>

InitInteractive ==
    /\ Init
    /\ config.slack_interactive_mode
    /\ config.slack_signing_secret = SigningSecret
    /\ config.bluesky_monitor # None

\* The search returns the posts in one order: p1, p2, p3.
InSearchOrder(p) ==
    /\ p = "p2" => has_seen_post(seen_posts, "p1", Platform)
    /\ p = "p3" => has_seen_post(seen_posts, "p2", Platform)

NextInteractive ==
    \/ \E p \in InteractivePosts : InSearchOrder(p) /\ ProcessPost(p)
    \/ \E a \in {"ignore", "reshare"}, s \in Sentiments : Decide(a, s, "y")
    \/ \E t \in Threads, req \in ButtonPresses : Receive(t, req)
    \/ \E t \in Threads : ProcessApproval(t, "ok")
    \/ \E t \in Threads : RecordOutcome(t, TRUE)
    \/ \E t \in Threads : SetStatus(t, TRUE)
    \/ \E t \in Threads : NextRequest(t)

InteractiveSpec == InitInteractive /\ [][NextInteractive]_vars

-----------------------------------------------------------------------------
(* The orchestrator alone, polling cycle by polling cycle, in each of the    *)
(* gating modes: run_monitoring_loop.                                        *)

\* MANUAL_APPROVAL and SLACK_INTERACTIVE_MODE are read independently.
MonitorConfigs ==
    [slack_interactive_mode : BOOLEAN, manual_approval : BOOLEAN,
     utc_offset : {0}, slack_signing_secret : {SigningSecret},
     bluesky_monitor : {"BlueskyMonitor"}]

\* What search_recent_posts can return: posts the ledger has not seen; a
\* post that matches two keywords is in the list twice.
SearchResults == {<<>>} \cup {<<p>> : p \in PostIds}
                 \cup {<<p, q>> : p \in PostIds, q \in PostIds}

\* posts = self.search_recent_posts(), once the loop over the previous list
\* is through.
Search(posts) ==
    /\ orch.pc = "idle"
    /\ orch.i = Len(orch.posts)
    /\ \A k \in DOMAIN posts : ~has_seen_post(seen_posts, posts[k], Platform)
    /\ orch' = [OrchIdle EXCEPT !.posts = posts]
    /\ UNCHANGED <<ledger, now, config, ret, thread, executed>>

\* for post in posts: try: self.process_post(post) except Exception: continue
LoopStep ==
    /\ orch.i < Len(orch.posts)
    /\ ProcessPost(orch.posts[orch.i + 1])

InitMonitor ==
    /\ seen_posts = {}
    /\ rate_limits = <<>>
    /\ response_log = <<>>
    /\ pending_approvals = <<>>
    /\ now = 0
    /\ config \in MonitorConfigs
    /\ ret = NoCall
    /\ orch = OrchIdle
    /\ thread = [t \in Threads |-> ThreadIdle]
    /\ executed = <<>>

NextMonitor ==
    \/ \E posts \in SearchResults : Search(posts)
    \/ LoopStep
    \/ \E a \in DecisionActions, s \in Sentiments, ans \in Answers : Decide(a, s, ans)
    \/ \E o \in AdapterOutcomes : OrchExecute(o)
    \/ \E c \in BOOLEAN : OrchRecord(c)

MonitorSpec == InitMonitor /\ [][NextMonitor]_vars

-----------------------------------------------------------------------------
(* run_monitoring_loop with its clock, the exceptions at the top level of a *)
(* polling cycle and the interrupt signal, on hosts on and east of UTC.     *)

\* interval_seconds, default of run_monitoring_loop; time.sleep(60) of the
\* except clause.
interval_seconds == 300
cooldown_seconds == 60

\* The last instant the clock of a behaviour shows; a sleep that would end
\* later ends there.
MaxClock == 360

\* The instant at which a sleep of d seconds ends.
Later(d) == IF now + d < MaxClock THEN now + d ELSE MaxClock

LoopConfigs ==
    [slack_interactive_mode : BOOLEAN, manual_approval : BOOLEAN,
     utc_offset : {0, 7200}, slack_signing_secret : {SigningSecret},
     bluesky_monitor : {"BlueskyMonitor"}]

\* The loop at the top of a polling cycle. pc: stats (rate_limiter.get_stats
\* is next), search, posts (the for loop), cooldown, stopped; last: how the
\* try block was left when it was left by an exception.
LoopTop == [op |-> "run_monitoring_loop", pc |-> "stats", last |-> None]

\* The order in which the posts appear in the search.
SearchOrder == <<"p1", "p2", "p3">>

\* if self.db.has_seen_post(post_uri, 'bluesky'): continue
IsNew(p) == ~has_seen_post(seen_posts, p, Platform)

\* What search_recent_posts can return within one cycle: of the posts the
\* ledger has not seen, none, the first, the first twice (it matches two
\* keywords), or the first two.
LoopSearchResults ==
    LET unseen == SelectSeq(SearchOrder, IsNew)
    IN  {SubSeq(unseen, 1, n) : n \in 0..(IF Len(unseen) < 2 THEN Len(unseen)
                                          ELSE 2)}
        \cup {<<unseen[1], unseen[1]>> : k \in {1} \cap DOMAIN unseen}

\* Faulty variant of ExceptException: the exception is raised again.
ExceptReraise(loop) == [loop EXCEPT !.pc = "stopped", !.last = "Exception"]

\* except Exception as e: log, then time.sleep(60) is next
ExceptException(loop) ==
    [loop EXCEPT !.pc = "cooldown", !.last = "Exception"]

\* rate_stats = self.rate_limiter.get_stats(): three reads of the ledger,
\* which return or raise.
RateStats(ok) ==
    /\ ret.pc = "stats"
    /\ ret' = IF ok THEN [ret EXCEPT !.pc = "search"] ELSE ExceptException(ret)
    /\ UNCHANGED <<ledger, now, config, orch, thread, executed>>

\* posts = self.search_recent_posts(): posts the ledger has not seen, or an
\* exception.
SearchPosts(posts, ok) ==
    /\ ret.pc = "search"
    /\ IF ok
       THEN /\ ret' = [ret EXCEPT !.pc = "posts"]
            /\ orch' = [OrchIdle EXCEPT !.posts = posts]
       ELSE /\ posts = <<>>
            /\ ret' = ExceptException(ret)
            /\ UNCHANGED orch
    /\ UNCHANGED <<ledger, now, config, thread, executed>>

\* The for loop is through: time.sleep(interval_seconds), then the next
\* cycle.
Sleep ==
    /\ ret.pc = "posts"
    /\ orch.pc = "idle"
    /\ orch.i = Len(orch.posts)
    /\ now' = Later(interval_seconds)
    /\ ret' = LoopTop
    /\ UNCHANGED <<ledger, config, orch, thread, executed>>

\* time.sleep(60) of the except clause, then the next cycle.
Cooldown ==
    /\ ret.pc = "cooldown"
    /\ now' = Later(cooldown_seconds)
    /\ ret' = LoopTop
    /\ UNCHANGED <<ledger, config, orch, thread, executed>>

\* KeyboardInterrupt, wherever the loop is: inside the try block the
\* except KeyboardInterrupt clause breaks, in the cooldown the interrupt
\* leaves run_monitoring_loop for the caller's except KeyboardInterrupt.
\* A process_post call in progress is abandoned, and with the loop its
\* list of posts.
Interrupt ==
    /\ ret.pc # "stopped"
    /\ ret' = [ret EXCEPT !.pc = "stopped", !.last = "KeyboardInterrupt"]
    /\ orch' = OrchIdle
    /\ UNCHANGED <<ledger, now, config, thread, executed>>

\* The steps of the loop itself, the interrupt apart.
LoopProgress ==
    \/ \E ok \in BOOLEAN : RateStats(ok)
    \/ \E posts \in LoopSearchResults, ok \in BOOLEAN : SearchPosts(posts, ok)
    \/ ret.pc = "posts" /\ LoopStep
    \/ /\ ret.pc = "posts"
       /\ \E a \in DecisionActions, s \in Sentiments, ans \in Answers :
             Decide(a, s, ans)
    \/ ret.pc = "posts" /\ \E o \in AdapterOutcomes : OrchExecute(o)
    \/ ret.pc = "posts" /\ \E c \in BOOLEAN : OrchRecord(c)
    \/ Sleep
    \/ Cooldown

InitLoop ==
    /\ seen_posts = {}
    /\ rate_limits = <<>>
    /\ response_log = <<>>
    /\ pending_approvals = <<>>
    /\ now = 0
    /\ config \in LoopConfigs
    /\ ret = LoopTop
    /\ orch = OrchIdle
    /\ thread = [t \in Threads |-> ThreadIdle]
    /\ executed = <<>>

NextLoop ==
    \/ LoopProgress
    \/ Interrupt

LoopSpec == InitLoop /\ [][NextLoop]_vars

\* The loop is one thread: whatever step it is at is taken, every call
\* returns or raises, the operator answers the prompt. The interrupt may
\* never arrive.
LoopLiveSpec == LoopSpec /\ WF_vars(LoopProgress)

-----------------------------------------------------------------------------
(* The ledger called directly, operation by operation, as its callers and   *)
(* the repository's test scripts do, while the clock advances.              *)

\* 'bluesky' and the platform name of test_setup_v2.py
Platforms == {Platform, "test_platform"}

\* The instants at which calls are made: within min_seconds_between of the
\* first, within the hour, within the day, and a day later.
Instants == {0, 100, 1000, 4000, 90000}

\* Hosts on UTC, east of it and west of it.
UtcOffsets == {0, 7200, -18000}

\* time passes between two calls
Tick(t) ==
    /\ t \in Instants
    /\ t > now
    /\ now' = t
    /\ UNCHANGED <<ledger, config, orch, thread, executed, ret>>

\* db.mark_post_seen(post_id, platform, author_handle)
CallMarkSeen(post_id, platform, fail_at) ==
    /\ LET txn == get_connection(
                     <<Db, [Db EXCEPT !.seen_posts =
                              mark_post_seen(@, post_id, platform,
                                             AuthorOf(post_id), FALSE, now)]>>,
                     fail_at)
       IN  /\ Store(txn.db)
           /\ ret' = [op |-> "mark_post_seen", raised |-> txn.raised,
                      conn |-> txn.conn,
                      had_seen |-> has_seen_post(seen_posts, post_id, platform)]
    /\ UNCHANGED <<now, config, orch, thread, executed>>

\* db.has_seen_post(post_id, platform)
CallHasSeen(post_id, platform) ==
    /\ ret' = [op |-> "has_seen_post", raised |-> FALSE, conn |-> "closed",
               found |-> has_seen_post(seen_posts, post_id, platform)]
    /\ UNCHANGED <<ledger, now, config, orch, thread, executed>>

\* The configuration matters to the ledger by the host's time zone only.
LedgerConfigs ==
    [slack_interactive_mode : {TRUE}, manual_approval : {TRUE},
     utc_offset : UtcOffsets, slack_signing_secret : {SigningSecret},
     bluesky_monitor : {"BlueskyMonitor"}]

\* A freshly created database on a host of some time zone.
InitLedger ==
    /\ seen_posts = {}
    /\ rate_limits = <<>>
    /\ response_log = <<>>
    /\ pending_approvals = <<>>
    /\ now = 0
    /\ config \in LedgerConfigs
    /\ ret = NoCall
    /\ orch = OrchIdle
    /\ thread = [t \in Threads |-> ThreadIdle]
    /\ executed = <<>>

NextDedup ==
    \/ \E t \in Instants : Tick(t)
    \/ \E p \in PostIds, pf \in Platforms, f \in 0..1 : CallMarkSeen(p, pf, f)
    \/ \E p \in PostIds, pf \in Platforms : CallHasSeen(p, pf)

DedupSpec == InitLedger /\ [][NextDedup]_vars

-----------------------------------------------------------------------------
(* Recording, rate limiting and cleanup over a database in which two posts  *)
(* have been seen and one proposal awaits its approval.                     *)

\* Replies recorded in one behaviour.
MaxReplies == 3

\* Retention periods cleanup_old_data is called with, in days.
CleanupDays == {1}

\* db.record_reply(post_id, platform, author, sentiment, response_text)
CallRecordReply(post_id, platform, fail_at) ==
    /\ Len(response_log) < MaxReplies
    /\ LET txn == get_connection(
                     record_reply(Db, post_id, platform, AuthorOf(post_id),
                                  "positive", GeneratedText, now),
                     fail_at)
       IN  /\ Store(txn.db)
           /\ ret' = [op |-> "record_reply", raised |-> txn.raised,
                      conn |-> txn.conn, fail_at |-> fail_at]
    /\ UNCHANGED <<now, config, orch, thread, executed>>

\* Faulty variant of CallCanReply: the check itself records a reply.
CallCanReplyRecords(platform) ==
    /\ rate_limits' = record_reply_rate(rate_limits, platform, now)
    /\ ret' = [op |-> "can_reply", raised |-> FALSE, conn |-> "closed",
               platform |-> platform, at |-> now,
               answer |-> can_reply(rate_limits, platform, datetime_now)]
    /\ UNCHANGED <<seen_posts, response_log, pending_approvals, now, config,
                   orch, thread, executed>>

\* rate_limiter.can_reply() of the platform's limiter: three SELECTs
CallCanReply(platform) ==
    /\ ret' = [op |-> "can_reply", raised |-> FALSE, conn |-> "closed",
               platform |-> platform, at |-> now,
               answer |-> can_reply(rate_limits, platform, datetime_now)]
    /\ UNCHANGED <<ledger, now, config, orch, thread, executed>>

\* rate_limiter.get_stats()
CallGetStats(platform) ==
    /\ ret' = [op |-> "get_stats", raised |-> FALSE, conn |-> "closed",
               replies_last_hour |->
                   get_reply_count(rate_limits, platform, 1, datetime_now),
               replies_today |->
                   get_reply_count(rate_limits, platform, 24, datetime_now),
               can_reply_now |->
                   can_reply(rate_limits, platform, datetime_now)]
    /\ UNCHANGED <<ledger, now, config, orch, thread, executed>>

\* db.cleanup_old_data(days); returns the rowcount of the last DELETE
CallCleanup(days, fail_at) ==
    /\ LET txn == get_connection(cleanup_old_data(Db, days, datetime_now),
                                 fail_at)
       IN  /\ Store(txn.db)
           /\ ret' = [op |-> "cleanup_old_data", raised |-> txn.raised,
                      conn |-> txn.conn,
                      deleted |-> IF txn.raised THEN 0
                                  ELSE Len(rate_limits)
                                       - Len(txn.db.rate_limits)]
    /\ UNCHANGED <<now, config, orch, thread, executed>>

InitRate ==
    /\ seen_posts =
          mark_post_seen(mark_post_seen({}, "p1", Platform, AuthorOf("p1"),
                                        FALSE, 0),
                         "p2", Platform, AuthorOf("p2"), FALSE, 0)
    /\ rate_limits = <<>>
    /\ response_log = <<>>
    /\ pending_approvals =
          create_pending_approval(<<>>, "p1", Platform, "reshare",
                                  PostData("p1"), None)
    /\ now = 0
    /\ config \in LedgerConfigs
    /\ ret = NoCall
    /\ orch = OrchIdle
    /\ thread = [t \in Threads |-> ThreadIdle]
    /\ executed = <<0>>

NextRate ==
    \/ \E t \in Instants : Tick(t)
    \/ \E pf \in Platforms, f \in 0..3 : CallRecordReply("p1", pf, f)
    \/ \E pf \in Platforms : CallCanReply(pf)
    \/ \E pf \in Platforms : CallGetStats(pf)
    \/ \E d \in CleanupDays, f \in 0..2 : CallCleanup(d, f)

RateSpec == InitRate /\ [][NextRate]_vars

-----------------------------------------------------------------------------
(* The approval table called directly, as test_slack_interactive.py does.   *)

\* Approvals created in one behaviour.
MaxApprovals == 2

\* Statuses the callers write: the receiver's and the test script's.
WrittenStatuses == {"approved", "test_completed"}

\* db.create_pending_approval(...); returns cursor.lastrowid
CallCreateApproval(post_id, action, fail_at) ==
    /\ Len(pending_approvals) < MaxApprovals
    /\ LET txn == get_connection(
                     <<Db, [Db EXCEPT !.pending_approvals =
                              create_pending_approval(@, post_id, Platform,
                                  action, PostData(post_id), None)]>>,
                     fail_at)
       IN  /\ Store(txn.db)
           /\ ret' = [op |-> "create_pending_approval",
                      raised |-> txn.raised, conn |-> txn.conn,
                      id |-> IF txn.raised THEN 0
                             ELSE Len(txn.db.pending_approvals)]
    /\ UNCHANGED <<now, config, orch, thread, executed>>

\* db.get_pending_approval(approval_id)
CallGetApproval(approval_id) ==
    /\ ret' = [op |-> "get_pending_approval", raised |-> FALSE,
               conn |-> "closed",
               row |-> get_pending_approval(pending_approvals, approval_id)]
    /\ UNCHANGED <<ledger, now, config, orch, thread, executed>>

\* db.update_approval_status(approval_id, status)
CallUpdateStatus(approval_id, status, fail_at) ==
    /\ LET txn == get_connection(
                     <<Db, [Db EXCEPT !.pending_approvals =
                              update_approval_status(@, approval_id, status,
                                                     now)]>>,
                     fail_at)
       IN  /\ Store(txn.db)
           /\ ret' = [op |-> "update_approval_status",
                      raised |-> txn.raised, conn |-> txn.conn]
    /\ UNCHANGED <<now, config, orch, thread, executed>>

\* The approval table is stamped by SQLite alone, so one host time zone and
\* two instants cover it.
InitApproval == InitLedger /\ config.utc_offset = 0

NextApproval ==
    \/ \E t \in {100} : Tick(t)
    \/ \E p \in PostIds, a \in {"reply", "reshare"}, f \in 0..1 :
          CallCreateApproval(p, a, f)
    \/ \E id \in 1..(MaxApprovals + 1) : CallGetApproval(id)
    \/ \E id \in 1..(MaxApprovals + 1), st \in WrittenStatuses, f \in 0..1 :
          CallUpdateStatus(id, st, f)

ApprovalSpec == InitApproval /\ [][NextApproval]_vars

-----------------------------------------------------------------------------
(* The ledger under two callers at once, the orchestrator and a request     *)
(* thread of the callback receiver, each with a connection of its own,      *)
(* statement by statement.                                                  *)

\* The orchestrator and one request thread of the receiver.
Callers == {1, 2}

\* Outcomes recorded in one behaviour.
MaxOutcomes == 2

\* A caller without an open connection.
ConnClosed == [pc |-> "closed", op |-> None, post_id |-> None,
               platform |-> None, work |-> <<>>, done |-> 0]

\* The ledger operations that write seen_posts, response_log and
\* rate_limits.
WriteOps == {"mark_post_seen", "record_reply"}

\* The connection holds SQLite's write lock from its first statement (an
\* UPDATE or INSERT, before which sqlite3 begins the transaction) to its
\* commit or rollback.
HoldsLock(t) == thread[t].pc = "open" /\ thread[t].done >= 1

\* The views of a connection that takes the write lock now.
Views(op, post_id, platform) ==
    IF op = "record_reply"
    THEN record_reply(Db, post_id, platform, AuthorOf(post_id), "positive",
                      GeneratedText, now)
    ELSE <<Db, [Db EXCEPT !.seen_posts =
                   mark_post_seen(@, post_id, platform, AuthorOf(post_id),
                                  FALSE, now)]>>

\* with self.get_connection() as conn: sqlite3.connect(self.db_path)
Connect(t, op, post_id, platform) ==
    /\ thread[t].pc = "closed"
    /\ thread' = [thread EXCEPT ![t] =
                     [ConnClosed EXCEPT !.pc = "open", !.op = op,
                                        !.post_id = post_id,
                                        !.platform = platform]]
    /\ UNCHANGED <<ledger, now, config, ret, orch, executed>>

\* cursor.execute(...): the next statement of the body. It raises when ok
\* is FALSE, and the first statement raises 'database is locked' when the
\* other connection holds the write lock beyond the timeout; get_connection
\* then rolls back, closes and re-raises.
Execute(t, ok) ==
    /\ thread[t].pc = "open"
    /\ LET c == thread[t]
           work == IF c.done = 0 THEN Views(c.op, c.post_id, c.platform)
                   ELSE c.work
           locked == c.done = 0 /\ \E u \in Callers \ {t} : HoldsLock(u)
       IN  /\ c.done < Len(work) - 1
           /\ c.op = "record_reply" /\ c.done = 0
                 => Len(response_log) < MaxOutcomes
           /\ IF ok /\ ~locked
              THEN /\ thread' = [thread EXCEPT ![t].work = work,
                                               ![t].done = c.done + 1]
                   /\ UNCHANGED <<ledger, ret>>
              ELSE LET txn == get_connection(work, c.done + 1)
                   IN  /\ ~ok \/ locked
                       /\ Store(txn.db)
                       /\ thread' = [thread EXCEPT ![t] = ConnClosed]
                       /\ ret' = [op |-> c.op, raised |-> txn.raised,
                                  conn |-> txn.conn, fail_at |-> c.done + 1]
    /\ UNCHANGED <<now, config, orch, executed>>

\* The body is through: conn.commit(), conn.close().
Commit(t) ==
    /\ thread[t].pc = "open"
    /\ thread[t].done >= 1
    /\ thread[t].done = Len(thread[t].work) - 1
    /\ LET txn == get_connection(thread[t].work, 0)
       IN  /\ Store(txn.db)
           /\ ret' = [op |-> thread[t].op, raised |-> txn.raised,
                      conn |-> txn.conn, fail_at |-> 0]
    /\ thread' = [thread EXCEPT ![t] = ConnClosed]
    /\ UNCHANGED <<now, config, orch, executed>>

InitConcurrent ==
    /\ seen_posts = {}
    /\ rate_limits = <<>>
    /\ response_log = <<>>
    /\ pending_approvals = <<>>
    /\ now = 0
    /\ config \in {c \in LedgerConfigs : c.utc_offset = 0}
    /\ ret = NoCall
    /\ orch = OrchIdle
    /\ thread = [t \in Threads |-> ConnClosed]
    /\ executed = <<>>

NextConcurrent ==
    \/ \E t \in Callers, op \in WriteOps, p \in PostIds, pf \in Platforms :
          Connect(t, op, p, pf)
    \/ \E t \in Callers, ok \in BOOLEAN : Execute(t, ok)
    \/ \E t \in Callers : Commit(t)

ConcurrentSpec == InitConcurrent /\ [][NextConcurrent]_vars

-----------------------------------------------------------------------------
(* The decision engine and the adapter called directly, against services    *)
(* that fail or answer.                                                      *)

\* claude.decide_engagement(post_data)
CallDecideEngagement(llm) ==
    /\ ret' = [op |-> "decide_engagement", service |-> llm,
               out |-> Stage1(llm)]
    /\ UNCHANGED <<ledger, now, config, orch, thread, executed>>

\* claude.decide_engagement_type(post_data, sentiment)
CallDecideEngagementType(llm) ==
    /\ ret' = [op |-> "decide_engagement_type", service |-> llm,
               out |-> Stage2(llm)]
    /\ UNCHANGED <<ledger, now, config, orch, thread, executed>>

\* claude.should_respond(post_data), under its own decorator
CallShouldRespond(llm1, llm2) ==
    /\ ret' = [op |-> "should_respond", service |-> llm1, service2 |-> llm2,
               body |-> should_respond(llm1, llm2),
               out |-> exponential_backoff(
                          [k \in 1..(MaxFails + 1) |->
                              should_respond(llm1, llm2)],
                          3, ApiErrors)]
    /\ UNCHANGED <<ledger, now, config, orch, thread, executed>>

\* claude.generate_response(post_data, action_type, max_chars)
CallGenerateResponse(llm, action_type, max_chars) ==
    /\ ret' = [op |-> "generate_response", service |-> llm,
               action_type |-> action_type, max_chars |-> max_chars,
               out |-> Generate(llm, action_type, max_chars)]
    /\ UNCHANGED <<ledger, now, config, orch, thread, executed>>

\* monitor.post_reply(post_id, reply_text, post_data) / reshare_post(...)
CallAdapter(has_uri, service) ==
    /\ ret' = [op |-> "post_reply", service |-> service, has_uri |-> has_uri,
               out |-> Adapter(has_uri, service)]
    /\ UNCHANGED <<ledger, now, config, orch, thread, executed>>

\* A function under @exponential_backoff(max_retries, exceptions=...),
\* called once.
CallWrapper(kinds, max_retries, exceptions) ==
    /\ ret' = [op |-> "wrapper", run |-> FuncCalls(kinds),
               max_retries |-> max_retries, exceptions |-> exceptions,
               out |-> exponential_backoff(FuncCalls(kinds), max_retries,
                                           exceptions)]
    /\ UNCHANGED <<ledger, now, config, orch, thread, executed>>

\* One call per behaviour: the operations are functions of what the
\* services answer, so a second call shows nothing the first does not.
NextEngine ==
    \/ /\ ret = NoCall
       /\ \E llm \in Llm(Stage1Objects) : CallDecideEngagement(llm)
    \/ /\ ret = NoCall
       /\ \E llm \in Llm(Stage2Objects) : CallDecideEngagementType(llm)
    \/ /\ ret = NoCall
       /\ \E llm1 \in Llm(Stage1Objects), r2 \in Responses(Stage2Objects) :
             CallShouldRespond(
                 llm1, [fails |-> 0, exc |-> "APIConnectionError", then |-> r2])
    \/ /\ ret = NoCall
       /\ \E llm \in GenerationLlm, a \in {"reply_with_cta", "reply_casual"},
             m \in 0..MaxChars : CallGenerateResponse(llm, a, m)
    \/ /\ ret = NoCall
       /\ \E u \in BOOLEAN, service \in Bluesky : CallAdapter(u, service)
    \/ /\ ret = NoCall
       /\ \E kinds \in [1..(MaxFails + 1) -> CallKinds], m \in RetryLimits,
             e \in RetrySets : CallWrapper(kinds, m, e)

EngineSpec == InitApproval /\ [][NextEngine]_vars

(***************************************************************************)
(* Properties                                                              *)
(***************************************************************************)
Overlapped == \E t \in Threads : thread[t].overlap

Terminal(id) == pending_approvals[id].status # "pending"

\* ReplyEvents of a platform inside the window of the given hours that ends
\* at the present instant.
ReplyEvents(platform, hours) ==
    Cardinality({i \in DOMAIN rate_limits :
                    /\ rate_limits[i].platform = platform
                    /\ rate_limits[i].reply_time > now - hours * 3600})

\* C1: when approve deliveries for one approval are handled concurrently,
\* the approval's action is executed once only, whatever the interleaving.
C1_ConcurrentApproveExecutesOnce ==
    Overlapped => \A id \in DOMAIN executed : executed[id] <= 1

\* C2: over deliveries handled one after the other (none arrives while
\* another is in flight), the adapter action of an approval is executed at
\* most once, even when recording the outcome fails after the adapter call.
C2_SequentialAtMostOnce ==
    ~Overlapped => \A id \in DOMAIN executed : executed[id] <= 1

\* C3: once an approval's status is approved or rejected, no step changes it.
C3_TerminalStatusImmutable ==
    [][\A id \in DOMAIN pending_approvals :
          Terminal(id) =>
              pending_approvals'[id].status = pending_approvals[id].status]_vars

\* C4: an approval whose status is rejected has never had its action
\* executed through the adapter.
C4_RejectedNeverExecuted ==
    \A id \in DOMAIN pending_approvals :
        pending_approvals[id].status = "rejected" => executed[id] = 0

\* The adapter operation that belongs to a stored action.
MatchingOp(action) == IF action = "reshare" THEN "reshare" ELSE "reply"

\* C5: with the adapter available, processing an approve for a pending
\* approval invokes the adapter operation matching the stored action
\* (reshare, reply_with_cta or reply_casual).
C5_ApproveInvokesMatchingOp ==
    [][\A t \in Threads :
          (/\ thread[t].pc = "process"
           /\ thread'[t] # thread[t]
           /\ config.bluesky_monitor # None)
          => /\ thread'[t].calls = 1
             /\ thread'[t].op =
                  MatchingOp(pending_approvals[thread[t].approval_id].action)]_vars

\* An authenticated, well-formed approve or reject delivery for approval id.
Addresses(req, id) ==
    /\ req.body \in {<<"approve", "_", "1">>, <<"reject", "_", "1">>}
    /\ ParseInt(split(req.body)[2]) = id
    /\ verify_slack_signature(req.body, req.timestamp, req.signature) = "valid"

\* The step is thread t taking up a newly arrived request.
Arrives(t) == thread[t].pc = "new" /\ thread'[t].pc # "new"

\* C6: a delivery for an approval whose status is not pending changes no
\* ledger state, invokes no adapter, and is answered at once with success
\* and a message carrying the existing status.
C6_NonPendingDeliveryIsNoOp ==
    [][\A t \in Threads :
          Arrives(t) =>
          \A id \in DOMAIN pending_approvals :
             Terminal(id) =>
             \A req \in Requests :
                (Addresses(req, id) /\ Receive(t, req))
                => /\ UNCHANGED <<ledger, executed>>
                   /\ thread'[t].pc = "done"
                   /\ thread'[t].calls = 0
                   /\ thread'[t].code = 200
                   /\ thread'[t].text = <<"This approval has already been",
                                          pending_approvals[id].status>>]_vars

C6_Witness ==
    \E t \in Threads :
        /\ thread[t].pc = "done"
        /\ thread[t].code = 200
        /\ thread[t].calls = 0
        /\ \E id \in DOMAIN pending_approvals :
              /\ Terminal(id)
              /\ thread[t].text = <<"This approval has already been",
                                    pending_approvals[id].status>>

\* C7: a delivery whose adapter call returned failure or raised never
\* writes the status approved.
C7_FailedExecutionNotMarkedApproved ==
    \A t \in Threads :
        thread[t].result \in {"fail", "raise"}
        => thread[t].wrote_status # "approved"

C7_Witness ==
    \E t \in Threads :
        /\ thread[t].pc = "done"
        /\ thread[t].result = "raise"
        /\ thread[t].wrote_status = None

\* C8 as stated: when the execution triggered by an approval fails, the
\* approval is left at the status approved.
C8_FailedExecutionLeavesApproved ==
    [][\A t \in Threads :
          (thread[t].pc = "process" /\ thread'[t].result \in {"fail", "raise"})
          => pending_approvals'[thread[t].approval_id].status = "approved"]_vars

\* C8 amended: when the execution triggered by an approval fails, the
\* delivery ends there: it leaves the approval's status as it found it, no
\* outcome is recorded, and the adapter was called once (no retry).
C8_FailedExecutionLeavesStatus ==
    [][\A t \in Threads :
          (thread[t].pc = "process" /\ thread'[t].result \in {"fail", "raise"})
          => /\ thread'[t].pc = "done"
             /\ thread'[t].calls = 1
             /\ ~thread'[t].recorded
             /\ UNCHANGED ledger]_vars

C8_Witness ==
    \E t \in Threads :
        /\ thread[t].pc = "done"
        /\ thread[t].result = "fail"
        /\ thread[t].calls = 1
        /\ ~thread[t].recorded
        /\ \A id \in DOMAIN pending_approvals :
              pending_approvals[id].status = "pending"

\* C9: when the adapter reports failure, in the orchestrator's manual or
\* automatic path or in the callback path, the step ends the operation
\* without an outcome row: the response log, the rate-limit rows and the
\* seen-post row are left alone, the post stays marked unresponded, and
\* the adapter is not called again.
C9_FailureWritesNothing ==
    [][/\ (orch.pc = "execute" /\ orch'.result = "fail")
          => /\ orch'.pc = "idle"
             /\ UNCHANGED <<seen_posts, response_log, rate_limits>>
             /\ \E r \in seen_posts' :
                   r.post_id = orch.post /\ r.platform = Platform
             /\ \A r \in seen_posts' : r.post_id = orch.post => ~r.responded
       /\ \A t \in Threads :
             (thread[t].pc = "process" /\ thread'[t].result = "fail")
             => /\ thread'[t].pc = "done"
                /\ thread'[t].calls = 1
                /\ UNCHANGED <<seen_posts, response_log, rate_limits>>]_vars

C9_Witness ==
    /\ orch.pc = "idle"
    /\ orch.result = "fail"
    /\ response_log = <<>>
    /\ \E p \in PostIds : has_seen_post(seen_posts, p, Platform)

\* The signature header is not the HMAC of the request under the signing
\* secret.
Forged(req) ==
    req.signature # SlackSignature(SigningSecret, req.timestamp, req.body)

\* The body is valid UTF-8 and the signature header is ASCII.
Decodable(req) == req.body # BadUtf8Body /\ req.signature.ascii

\* C10 as stated, on requests that can be decoded: in every configuration
\* of the receiver, a request whose signature is not the HMAC is answered
\* with a client-error status and has no side effect.
C10_ForgedRejectedEverywhere ==
    [][\A t \in Threads :
          Arrives(t) =>
          \A req \in Requests :
             (Forged(req) /\ Decodable(req) /\ Receive(t, req))
             => /\ thread'[t].pc = "done"
                /\ thread'[t].code \in 400..499
                /\ UNCHANGED <<ledger, executed>>]_vars

\* C10 amended: when a signing secret is configured, a request whose
\* signature is not the HMAC has no side effect and invokes nothing; it is
\* answered 403, or 500 when the body is not UTF-8 or the signature header
\* is not ASCII.
C10_ForgedRejectedWhenSecretSet ==
    [][\A t \in Threads :
          (Arrives(t) /\ config.slack_signing_secret # None) =>
          \A req \in Requests :
             (Forged(req) /\ Receive(t, req))
             => /\ thread'[t].pc = "done"
                /\ thread'[t].calls = 0
                /\ thread'[t].code =
                     IF Decodable(req) THEN 403 ELSE 500
                /\ UNCHANGED <<ledger, executed>>]_vars

C10_Witness ==
    /\ config.slack_signing_secret # None
    /\ \E t \in Threads : thread[t].pc = "done" /\ thread[t].code = 403

\* C11: every executed action is gated by the rate limiter, also when the
\* approval callback receiver executes it: with deliveries handled one
\* after the other and nothing failing, the ReplyEvents of the platform in
\* the trailing hour never exceed max_per_hour and those in the trailing
\* 24 hours never exceed max_per_day.
C11_ExecutionsWithinLimits ==
    ~Overlapped =>
        /\ ReplyEvents(Platform, 1) <= max_per_hour
        /\ ReplyEvents(Platform, 24) <= max_per_day

\* Seen-post rows with the key (post_id, platform) in table sp.
SeenRows(sp, post_id, platform) ==
    {r \in sp : r.post_id = post_id /\ r.platform = platform}

\* C14: after mark_post_seen(post_id, platform), whether it is the first
\* or a repeated call for the key, there is exactly one seen-post row for
\* the key and has_seen_post is true.
C14_MarkSeenIdempotent ==
    [][\A p \in PostIds, pf \in Platforms :
          CallMarkSeen(p, pf, 0)
          => /\ Cardinality(SeenRows(seen_posts', p, pf)) = 1
             /\ has_seen_post(seen_posts', p, pf)]_vars

C14_Witness ==
    /\ ret.op = "mark_post_seen"
    /\ ret.had_seen
    /\ ~ret.raised
    /\ \E p \in PostIds, pf \in Platforms :
          /\ Cardinality(SeenRows(seen_posts, p, pf)) = 1
          /\ \E r \in SeenRows(seen_posts, p, pf) : r.seen_at > 0

\* C15: seen-post rows are keyed by (post_id, platform): without cleanup,
\* no step makes has_seen_post false for a key it was true for, whatever
\* other keys are marked, and marking (post_id, p) does not make
\* has_seen_post true for the same post_id on another platform.
C15_SeenKeyedByPostAndPlatform ==
    [][\A p \in PostIds, pf \in Platforms :
          /\ has_seen_post(seen_posts, p, pf) => has_seen_post(seen_posts', p, pf)
          /\ \A q \in Platforms \ {pf} :
                (CallMarkSeen(p, pf, 0) /\ ~has_seen_post(seen_posts, p, q))
                => ~has_seen_post(seen_posts', p, q)]_vars

\* The three checks of the rate limiter, on the ReplyEvents of the platform
\* as they are at the present instant.
ThreeChecks(platform) ==
    /\ ReplyEvents(platform, 1) < max_per_hour
    /\ ReplyEvents(platform, 24) < max_per_day
    /\ ~\E i \in DOMAIN rate_limits :
           /\ rate_limits[i].platform = platform
           /\ rate_limits[i].reply_time > now - 3600
           /\ rate_limits[i].reply_time > now - min_seconds_between

\* C12: can_reply returns true if and only if the hourly count is below
\* max_per_hour, the daily count is below max_per_day, and no ReplyEvent of
\* the trailing hour is more recent than min_seconds_between ago.
C12_CanReplyIffThreeChecks ==
    (ret.op = "can_reply" /\ ret.at = now)
    => (ret.answer <=> ThreeChecks(ret.platform))

\* C13: can_reply and the limiter's stats query leave every table
\* unchanged; a row of rate_limits is appended by a committed record_reply
\* only; and two can_reply calls for a platform at one instant with no call
\* in between return the same answer.
C13_CanReplyHasNoSideEffect ==
    [][/\ \A pf \in Platforms :
             (CallCanReply(pf) \/ CallGetStats(pf)) => UNCHANGED ledger
       /\ Len(rate_limits') > Len(rate_limits)
             => ret'.op = "record_reply" /\ ~ret'.raised
       /\ (/\ ret.op = "can_reply" /\ ret'.op = "can_reply"
           /\ ret'.platform = ret.platform /\ ret'.at = ret.at)
             => ret'.answer = ret.answer]_vars

C13_Witness ==
    /\ ret.op = "can_reply"
    /\ ~ret.answer
    /\ ret.at = now
    /\ Len(rate_limits) = Len(response_log)
    /\ Len(rate_limits) > 0

\* C16: a committed record_reply(post_id, platform, ...) appends exactly
\* one response_log row and exactly one rate_limits row of the platform,
\* leaves the seen-post row of (post_id, platform) with responded true,
\* and changes no other row.
C16_RecordReplyWritesThreeRows ==
    [][\A pf \in Platforms :
          CallRecordReply("p1", pf, 0)
          => /\ response_log' =
                  Append(response_log,
                         [post_id |-> "p1", platform |-> pf,
                          author_handle |-> AuthorOf("p1"),
                          sentiment |-> "positive",
                          response_text |-> GeneratedText])
             /\ rate_limits' =
                  Append(rate_limits, [platform |-> pf, reply_time |-> now])
             /\ \A r \in SeenRows(seen_posts', "p1", pf) : r.responded
             /\ Cardinality(SeenRows(seen_posts', "p1", pf))
                  = Cardinality(SeenRows(seen_posts, "p1", pf))
             /\ seen_posts' \ SeenRows(seen_posts', "p1", pf)
                  = seen_posts \ SeenRows(seen_posts, "p1", pf)
             /\ pending_approvals' = pending_approvals]_vars

C16_Witness ==
    /\ ret.op = "record_reply"
    /\ ~ret.raised
    /\ Len(response_log) = 1
    /\ Len(rate_limits) = 1
    /\ \E r \in SeenRows(seen_posts, "p1", Platform) : r.responded
    /\ \E r \in SeenRows(seen_posts, "p2", Platform) : ~r.responded

\* C17: when a statement of a ledger operation fails (any of the three of
\* record_reply, either of cleanup_old_data), nothing of the operation is
\* left in the database, the error reaches the caller and the connection
\* is closed; a call in which nothing fails closes its connection too.
C17_FailedWriteRollsBack ==
    [][/\ \A pf \in Platforms, f \in 1..3 :
             CallRecordReply("p1", pf, f)
             => UNCHANGED ledger /\ ret'.raised /\ ret'.conn = "closed"
       /\ \A d \in CleanupDays, f \in 1..2 :
             CallCleanup(d, f)
             => UNCHANGED ledger /\ ret'.raised /\ ret'.conn = "closed"
       /\ ret'.op # "None" => ret'.conn = "closed"]_vars

C17_Witness ==
    /\ ret.op = "record_reply"
    /\ ret.raised
    /\ ret.fail_at = 3
    /\ ret.conn = "closed"
    /\ response_log = <<>>
    /\ rate_limits = <<>>
    /\ \E r \in SeenRows(seen_posts, "p1", Platform) : ~r.responded

\* C20: cleanup_old_data(days) deletes only seen-post rows and rate_limits
\* rows older than the retention cutoff: the rows of both tables that are
\* not older than days before the present instant, and every response_log
\* row and pending_approvals row, are left as they are.
C20_CleanupDeletesOnlyOldRows ==
    [][\A d \in CleanupDays :
          CallCleanup(d, 0)
          => /\ \A r \in seen_posts :
                   r.seen_at >= now - d * 86400 => r \in seen_posts'
             /\ seen_posts' \subseteq seen_posts
             /\ LET Recent(row) == row.reply_time >= now - d * 86400
                IN  SelectSeq(rate_limits', Recent)
                      = SelectSeq(rate_limits, Recent)
             /\ response_log' = response_log
             /\ pending_approvals' = pending_approvals]_vars

\* What the response-text field holds for a reshare.
ReshareSentinels == {"[RESHARED]", "reshare"}

\* C18: every response_log row, whichever path wrote it, holds the
\* sentiment of the decision in its sentiment field, and in its
\* response-text field the reply text that was sent or the reshare
\* sentinel.
C18_LogRowHoldsSentimentAndText ==
    \A i \in DOMAIN response_log :
        /\ response_log[i].sentiment \in Sentiments
        /\ response_log[i].response_text
             \in {GeneratedText, EditedText} \cup ReshareSentinels

\* C19: a committed create_pending_approval returns an id that no earlier
\* approval has, and the row read back under it is pending with no
\* responded_at; after a committed update_approval_status(N, s) the row N
\* has status s and a responded_at; both leave every other row unchanged.
C19_CreateThenSetStatus ==
    [][/\ \A p \in PostIds, a \in {"reply", "reshare"} :
             (ret'.op = "create_pending_approval" /\ CallCreateApproval(p, a, 0))
             => /\ ret'.id \notin DOMAIN pending_approvals
                /\ get_pending_approval(pending_approvals', ret'.id).status
                     = "pending"
                /\ get_pending_approval(pending_approvals', ret'.id)
                     .responded_at = <<>>
                /\ \A id \in DOMAIN pending_approvals :
                      pending_approvals'[id] = pending_approvals[id]
       /\ \A n \in DOMAIN pending_approvals, st \in WrittenStatuses :
             (ret'.op = "update_approval_status" /\ CallUpdateStatus(n, st, 0))
             => /\ get_pending_approval(pending_approvals', n).status = st
                /\ get_pending_approval(pending_approvals', n).responded_at
                     # <<>>
                /\ DOMAIN pending_approvals' = DOMAIN pending_approvals
                /\ \A id \in DOMAIN pending_approvals \ {n} :
                      pending_approvals'[id] = pending_approvals[id]]_vars

C19_Witness ==
    /\ ret.op = "update_approval_status"
    /\ ~ret.raised
    /\ Len(pending_approvals) = 2
    /\ pending_approvals[2].status = "approved"
    /\ pending_approvals[2].responded_at # <<>>
    /\ pending_approvals[1].status = "pending"
    /\ pending_approvals[1].responded_at = <<>>

\* The actions that reach the gating step.
GatedActions == {"reshare", "reply_with_cta", "reply_casual"}

C22_NonAffirmativeAborts ==
    [][\A a \in GatedActions, s \in Sentiments, ans \in Answers \ {"y"} :
          (GatingMode = "manual" /\ Decide(a, s, ans))
          => /\ orch'.pc = "idle"
             /\ orch'.calls = 0
             /\ UNCHANGED ledger]_vars

\* C23: in manual mode a reply goes to the adapter, and is recorded, only
\* when the operator's last answer was the affirmative one; after an edit
\* that is a further yes, given to the replacement text.
C23_ReplyPostedOnlyAfterFinalYes ==
    (/\ GatingMode = "manual"
     /\ orch.op = "reply"
     /\ orch.pc \in {"execute", "record"})
    => orch.answer = "y"

C30_PerPostIsolation ==
    [][/\ orch'.result \in Exceptions /\ orch.pc # "idle"
          => /\ orch'.pc = "idle"
             /\ orch'.posts = orch.posts
             /\ orch'.i = orch.i
             /\ orch'.caught = orch.caught + 1
       /\ orch'.posts # orch.posts
          => \A k \in DOMAIN orch.posts :
                has_seen_post(seen_posts, orch.posts[k], Platform)]_vars

C30_Witness ==
    /\ orch.caught > 0
    /\ orch.i = 2
    /\ orch.pc = "decide"
    /\ orch.post = orch.posts[2]

\* A first answer of the LLM service that stage 1 cannot use: the call
\* fails, the content is empty, or the text is not a JSON object.
Unusable(service) ==
    LET first == ServiceAt(service, 1)
    IN  IF first.raised THEN TRUE
        ELSE IF first.value.content = "empty" THEN TRUE
        ELSE first.value.json \in {"invalid", "scalar"}

\* C25: decide_engagement never raises, and for a call error or a
\* response that is not parseable structured data it returns
\* should_engage false with the reason parse_error or error.
C25_DecisionFailsClosed ==
    ret.op = "decide_engagement"
    => /\ ~ret.out.raised
       /\ Unusable(ret.service)
          => /\ ret.out.value.should_engage = JFalse
             /\ ret.out.value.reason \in {JStr("parse_error"), JStr("error")}

C25_Witness ==
    /\ ret.op = "decide_engagement"
    /\ ret.service.fails = 0
    /\ ret.service.then.content = "text"
    /\ ret.service.then.json = "invalid"
    /\ ret.out.value.should_engage = JFalse
    /\ ret.out.value.reason = JStr("parse_error")

\* C26: should_respond never raises; when stage 1 returned should_engage
\* false, its fail-closed results included, stage 2 is not invoked and the
\* decision is should_respond false with action ignore; when stage 1
\* returned should_engage true, stage 2 is invoked exactly once and the
\* decision is should_respond true with stage 2's action and both reasons
\* joined.
C26_ShouldRespondComposes ==
    ret.op = "should_respond"
    => LET stage1 == ret.body.stage1
           stage2 == ret.body.stage2
           decision == ret.out.value
       IN  /\ ~ret.out.raised
           /\ Unusable(ret.service) => stage1.should_engage = JFalse
           /\ Get(stage1, "should_engage", JFalse) = JFalse
              => /\ ret.body.stage2_calls = 0
                 /\ decision.should_respond = JFalse
                 /\ decision.action = JStr("ignore")
           /\ Get(stage1, "should_engage", JFalse) = JTrue
              => /\ ret.body.stage2_calls = 1
                 /\ decision.should_respond = JTrue
                 /\ decision.action
                      = Get(stage2, "action", JStr("reply_with_cta"))
                 /\ decision.reason
                      = <<JStr("Stage1: "), stage1.reason,
                          JStr(" | Stage2: "),
                          Get(stage2, "reason", JStr(""))>>

C26_Witness ==
    /\ ret.op = "should_respond"
    /\ ret.body.stage2_calls = 1
    /\ ret.out.value.should_respond = JTrue
    /\ ret.out.value.action = JStr("reshare")
    /\ ret.out.value.reason
         = <<JStr("Stage1: "), JStr("on topic"), JStr(" | Stage2: "),
             JStr("news")>>

\* C27: a decision with should_respond true carries an action of the
\* closed set {reshare, reply_casual, reply_with_cta} and a score in 1..10.
C27_ClosedActionSet ==
    (ret.op = "should_respond" /\ ret.out.value.should_respond = JTrue)
    => /\ ret.out.value.action \in {JStr(a) : a \in GatedActions}
       /\ "int" \in DOMAIN ret.out.value.engagement_score
       /\ ret.out.value.engagement_score.int \in 1..10

\* The text generate_response was given by an answering service, stripped.
Generated == strip(ret.service.then.text)

\* What C28 says of a generated text and the reply returned for it.
TruncatedExactly(generated, max_chars, reply) ==
    IF Len(generated) > max_chars
    THEN /\ Len(reply) = max_chars
         /\ Len(reply) >= 3
         /\ SubSeq(reply, Len(reply) - 2, Len(reply)) = Ellipsis
         /\ SubSeq(reply, 1, max_chars - 3)
              = SubSeq(generated, 1, max_chars - 3)
    ELSE reply = generated

\* C28: for every max_chars, a generated text longer than max_chars comes
\* back as exactly max_chars characters, the last three the ellipsis, the
\* first max_chars - 3 the prefix of the original; a text of at most
\* max_chars characters comes back unchanged.
C28_TruncationExact ==
    (/\ ret.op = "generate_response"
     /\ ret.service.fails = 0
     /\ ret.service.then.content = "text")
    => TruncatedExactly(Generated, ret.max_chars, ret.out.value)

\* C28 as it holds: the same for max_chars of at least 3, the generated
\* text being the model's text without surrounding whitespace; for a
\* smaller max_chars a text that fits still comes back unchanged.
C28_TruncationExactFromThree ==
    (/\ ret.op = "generate_response"
     /\ ret.service.fails = 0
     /\ ret.service.then.content = "text"
     /\ (ret.max_chars >= 3 \/ Len(Generated) <= ret.max_chars))
    => TruncatedExactly(Generated, ret.max_chars, ret.out.value)

C28_Witness ==
    /\ ret.op = "generate_response"
    /\ ret.service.fails = 0
    /\ ret.service.then.content = "text"
    /\ ret.service.then.text = <<"a", "b", "a", "b", "a">>
    /\ ret.max_chars = 4
    /\ ret.out.value = <<"a", ".", ".", ".">>

\* The operations whose external call the retry decorator wraps, and their
\* max_retries.
Retried == {"decide_engagement", "decide_engagement_type",
            "generate_response", "post_reply"}
MaxRetries(op) == IF op = "post_reply" THEN 2 ELSE 3

\* C29: when the external call of an LLM operation or of an adapter
\* operation fails transiently, the call is attempted again, as often as
\* it fails up to the operation's bound, and an error reaches the caller
\* only as the retry-exhausted error after the last attempt.
C29_TransientFailureRetried ==
    (/\ ret.op \in Retried
     /\ ret.op = "post_reply" => ret.has_uri
     /\ ret.service.fails >= 1)
    => /\ ret.out.attempts > 1
       /\ ret.service.fails <= MaxRetries(ret.op)
          => ret.out.attempts = ret.service.fails + 1 /\ ~ret.out.raised
       /\ ret.service.fails > MaxRetries(ret.op)
          => /\ ret.out.raised
             /\ ret.out.exc = "RetryException"

\* C32: the callback receiver writes the status rejected only for a token
\* whose verb is reject and the status approved only for a token whose
\* verb is approve; a token "<verb>_<id>" with any other verb writes no
\* status and invokes no adapter operation.
C32_VerbDecidesStatus ==
    [][\A t \in Threads :
          /\ (thread[t].pc # "done" /\ thread'[t].wrote_status = "rejected")
                => thread[t].action_type = <<"reject">>
          /\ (thread[t].pc # "done" /\ thread'[t].wrote_status = "approved")
                => thread[t].action_type = <<"approve">>
          /\ (/\ thread[t].pc \notin {"new", "done"}
              /\ thread[t].action_type \notin {<<"approve">>, <<"reject">>})
                => /\ pending_approvals' = pending_approvals
                   /\ thread'[t].calls = thread[t].calls]_vars

\* The calls of the wrapped function, among the first max_retries + 1, that
\* end the loop: a call that returns, or raises outside the retryable set.
Ending ==
    {k \in 1..(ret.max_retries + 1) :
        \/ ~ret.run[k].raised
        \/ ret.run[k].exc \notin ret.exceptions}

\* C34: the retry wrapper invokes the function at most max_retries + 1
\* times; the first invocation that returns ends it with that result, an
\* exception outside the retryable set propagates at once, and when all
\* max_retries + 1 invocations raise a retryable exception RetryException
\* is raised.
C34_WrapperTerminates ==
    ret.op = "wrapper" =>
        /\ ret.out.attempts <= ret.max_retries + 1
        /\ Ending # {} =>
              LET j == CHOOSE k \in Ending : \A l \in Ending : k <= l
              IN  /\ ret.out.attempts = j
                  /\ ret.out.raised = ret.run[j].raised
                  /\ IF ret.run[j].raised
                     THEN ret.out.exc = ret.run[j].exc
                     ELSE ret.out.value = ret.run[j].value
        /\ Ending = {} =>
              /\ ret.out.raised
              /\ ret.out.exc = "RetryException"
              /\ ret.out.attempts = ret.max_retries + 1

\* Two retryable failures, then the third call returns, under max_retries 3.
C34_Witness ==
    /\ ret.op = "wrapper"
    /\ ret.max_retries = 3
    /\ ret.exceptions = ApiErrors
    /\ ret.run[1].raised /\ ret.run[1].exc = "RateLimitError"
    /\ ret.run[2].raised /\ ret.run[2].exc = "RateLimitError"
    /\ ~ret.run[3].raised
    /\ ret.out.attempts = 3
    /\ ~ret.out.raised
    /\ ret.out.value = 3

\* C40: for every action type and every max_chars >= 0 the text
\* generate_response returns has at most max_chars characters, on the
\* normal path and on the path that returns the fixed fallback reply.
C40_ReplyWithinMaxChars ==
    ret.op = "generate_response" => len(ret.out.value) <= ret.max_chars

\* Rows of a table that belong to a platform.
RowsOf(table, platform) ==
    Cardinality({i \in DOMAIN table : table[i].platform = platform})

\* C39: absent cleanup, whatever ledger operations have run, failed
\* part-way or overlapped, response_log and rate_limits hold the same
\* number of rows for every platform.
C39_OutcomeRowsInPairs ==
    \A pf \in Platforms :
        RowsOf(response_log, pf) = RowsOf(rate_limits, pf)

\* A record_reply has failed at its third statement, after the log row was
\* written in its connection, while the other caller's connection is open
\* and an earlier outcome is on record.
C39_Witness ==
    /\ ret.op = "record_reply"
    /\ ret.raised
    /\ ret.fail_at = 3
    /\ \E t \in Callers : thread[t].pc = "open"
    /\ Len(response_log) >= 1

\* C38: the responded flag of a seen-post record is monotone: once
\* record_reply has set it for (post_id, platform), no later ledger
\* operation other than cleanup, a later mark_post_seen of the same post
\* included, leaves the record without it.
C38_RespondedMonotone ==
    [][\A r \in seen_posts :
          r.responded =>
              \E q \in seen_posts' : /\ q.post_id = r.post_id
                                     /\ q.platform = r.platform
                                     /\ q.responded]_vars

\* C31: the polling loop ends only on an interrupt: an exception at the
\* top level of a cycle leads to the cooldown and from there to a new
\* cycle, and whatever exceptions occur the loop keeps starting new cycles
\* until an interrupt arrives, at which point it stops for good.
C31_LoopEndsOnlyOnInterrupt ==
    /\ [](ret.pc = "stopped" => ret.last = "KeyboardInterrupt")
    /\ [](ret.last = "Exception" => ret.pc = "cooldown")
    /\ [][ret.pc = "cooldown" /\ ret'.pc # "stopped"
             => ret'.pc = "stats" /\ now' = Later(cooldown_seconds)]_vars
    /\ [][ret.pc = "stopped" => ret'.pc = "stopped"]_vars
    /\ [][Interrupt => ret'.pc = "stopped"]_vars
    /\ (ret.pc = "cooldown") ~> (ret.pc \in {"stats", "stopped"})
    /\ []<>(ret.pc \in {"stats", "stopped"})

\* A new cycle begins after two top-level exceptions in a row (the clock
\* shows two cooldowns and no interval).
C31_Witness ==
    /\ ret.pc = "stats"
    /\ now = 2 * cooldown_seconds

\* C33: a process_post call for a post that is already seen asks no
\* decision, writes nothing to the ledger, hands nothing to Slack and
\* invokes no adapter operation; a call for an unseen post marks it seen
\* whatever the rate limiter says, reaches the decision only when the rate
\* limiter accepts, and reaches gating and execution only through a
\* decision on that post.
C33_DecidedAtMostOnce ==
    /\ [][\A p \in PostIds :
             ProcessPost(p) =>
                IF has_seen_post(seen_posts, p, Platform)
                THEN /\ orch'.pc = "idle"
                     /\ orch'.result = "already_seen"
                     /\ ledger' = ledger
                     /\ orch'.notice = NoNotice
                     /\ orch'.calls = 0
                ELSE /\ has_seen_post(seen_posts', p, Platform)
                     /\ <<rate_limits, response_log, pending_approvals>>'
                          = <<rate_limits, response_log, pending_approvals>>
                     /\ orch'.notice = NoNotice
                     /\ orch'.calls = 0
                     /\ IF can_reply(rate_limits, Platform, datetime_now)
                        THEN orch'.pc = "decide" /\ orch'.post = p
                        ELSE /\ orch'.pc = "idle"
                             /\ orch'.result = "rate_limited"]_vars
    /\ [][orch'.pc = "decide" => orch.pc = "idle"]_vars
    /\ [][(\/ orch'.pc = "execute"
           \/ orch'.notice # orch.notice /\ orch'.notice # NoNotice
           \/ pending_approvals' # pending_approvals)
             => /\ orch.pc = "decide"
                /\ has_seen_post(seen_posts, orch.post, Platform)]_vars
    /\ [][orch'.calls # orch.calls /\ orch'.calls # 0
             => orch.pc = "execute" /\ orch.action \in GatedActions]_vars

\* The second occurrence of a post in the list was skipped as already
\* seen after the first was answered and recorded.
C33_Witness ==
    /\ orch.result = "already_seen"
    /\ orch.i = 2
    /\ orch.posts[1] = orch.posts[2]
    /\ \E k \in DOMAIN response_log : response_log[k].post_id = orch.posts[2]

\* C35: in the orchestrator every adapter execution follows, within the
\* same process_post call, a can_reply that answered True; hence with the
\* orchestrator in auto or manual mode as the only recorder of replies,
\* the replies of the trailing hour never exceed max_per_hour and those of
\* the trailing 24 hours never exceed max_per_day.
C35_OrchestratorWithinLimits ==
    /\ orch.pc \in {"execute", "record"}
          => can_reply(rate_limits, Platform, datetime_now)
    /\ ~config.slack_interactive_mode
          => /\ ReplyEvents(Platform, 1) <= max_per_hour
             /\ ReplyEvents(Platform, 24) <= max_per_day

\* The post has a row in response_log or in pending_approvals.
Engaged(p) ==
    \/ \E k \in DOMAIN response_log : response_log[k].post_id = p
    \/ \E k \in DOMAIN pending_approvals : pending_approvals[k].post_id = p

\* C36: a post that is turned away by the rate limiter at its first
\* sighting, or whose processing raised after the mark, is seen from then
\* on; a seen post stays seen, is never returned by a later search, never
\* reaches the decision engine again and is never engaged, whatever the
\* rate limiter says later.
C36_SkippedPostNeverEngaged ==
    /\ [][\A p \in InteractivePosts :
             (/\ orch.pc = "idle"
              /\ orch'.pc = "idle"
              /\ orch'.result = "rate_limited"
              /\ orch'.i = orch.i + 1
              /\ orch.posts[orch'.i] = p)
                => has_seen_post(seen_posts', p, Platform) /\ ~Engaged(p)']_vars
    /\ [][(orch.pc # "idle" /\ orch'.result \in Exceptions)
             => has_seen_post(seen_posts', orch.post, Platform)]_vars
    /\ [][\A p \in InteractivePosts :
             has_seen_post(seen_posts, p, Platform)
                => /\ has_seen_post(seen_posts', p, Platform)
                   /\ orch'.posts # orch.posts
                         => \A k \in DOMAIN orch'.posts : orch'.posts[k] # p
                   /\ orch.post # p => orch'.post # p
                   /\ (orch.post # p /\ ~Engaged(p)) => ~Engaged(p)']_vars

\* On a host on UTC, p2 was taken in the same cycle as p1 and after p1's
\* reply was recorded, hence turned away; in a later cycle the search has
\* found another post, the rate limiter accepts, and p2 is unanswered.
C36_Witness ==
    /\ config.utc_offset = 0
    /\ ret.pc = "posts"
    /\ orch.posts # <<>>
    /\ can_reply(rate_limits, Platform, datetime_now)
    /\ ~Engaged("p2")
    /\ \A k \in DOMAIN orch.posts : orch.posts[k] # "p2"
    /\ \E q \in seen_posts, r \in seen_posts :
          /\ q.post_id = "p1" /\ q.responded
          /\ r.post_id = "p2"
          /\ r.seen_at = q.seen_at
          /\ r.seen_at < now

\* Rows of a table that belong to a post.
RowsForPost(table, p) ==
    Cardinality({k \in DOMAIN table : table[k].post_id = p})

\* C37: over the polling cycles of one orchestrator, absent cleanup, a post
\* gets at most one pending approval (interactive mode) and is replied to
\* or reshared at most once (auto and manual mode): a call goes beyond the
\* dedup check only for a post not seen before, makes at most one adapter
\* call, and makes it for a post without an earlier outcome.
C37_OncePerPost ==
    /\ [](\A p \in InteractivePosts :
             /\ RowsForPost(pending_approvals, p) <= 1
             /\ RowsForPost(response_log, p) <= 1
             /\ config.slack_interactive_mode
                   => RowsForPost(response_log, p) = 0
             /\ ~config.slack_interactive_mode
                   => RowsForPost(pending_approvals, p) = 0)
    /\ [][(orch'.post # None /\ orch'.post # orch.post)
             => /\ ~has_seen_post(seen_posts, orch'.post, Platform)
                /\ has_seen_post(seen_posts', orch'.post, Platform)]_vars
    /\ [][orch'.calls > orch.calls
             => /\ orch.calls = 0 /\ orch'.calls = 1
                /\ ~config.slack_interactive_mode
                /\ ~Engaged(orch.post)]_vars
    /\ [][pending_approvals' # pending_approvals
             => /\ config.slack_interactive_mode
                /\ ~Engaged(orch.post)
                /\ Len(pending_approvals') = Len(pending_approvals) + 1]_vars

\* Interactive mode: a later cycle has created the second approval, for
\* another post than the first.
C37_Witness ==
    /\ config.slack_interactive_mode
    /\ now > 0
    /\ orch.result = "pending"
    /\ Len(pending_approvals) = 2
    /\ pending_approvals[1].post_id # pending_approvals[2].post_id

====
